---------------------------- MODULE Spec2Model ----------------------------
(***************************************************************************)
(* Model of the tabular catalog reconciliation logic of the dashboard:     *)
(*   - the menu editor of src/app/dashboard/page.tsx (field normalizers,   *)
(*     identity assignment, the flat <-> grouped projection, the loader    *)
(*     of stored menus, file import, add / edit / delete / clear);         *)
(*   - the delivery-zones POST handler of                                  *)
(*     src/app/api/restaurants/[id]/delivery-zones/route.ts (the per-city  *)
(*     delete-then-insert protocol against the delivery_zones table).      *)
(*                                                                         *)
(* Text is a sequence of one-character strings, so that trimming, case     *)
(* folding, whitespace collapsing and slugging are computed as the code    *)
(* computes them.  A JavaScript number is a record [k, m, e]: k = "num"    *)
(* is the finite decimal m / 10^e (canonical: no trailing fractional       *)
(* zero), k = "nan" is NaN, k = "null" / "undef" are null / undefined in a *)
(* numeric position.                                                       *)
(***************************************************************************)
EXTENDS Integers, Sequences, FiniteSets, Bags, TLC

VARIABLES
    priceIn,        \* parsePrice: the cell value handed to it
    priceOut,       \* parsePrice: its result (PendingNum until applied)
    normIn,         \* normalizers: the JavaScript value handed to one of them
    normOut,        \* normalizers: which one was called and how the call ended
    rowsIn,         \* pure projections: the input MenuRow list
    rowsPc,         \* pure projections: which function has been applied
    rowsA,          \* pure projections: first result (rows)
    rowsB,          \* pure projections: second result (rows)
    catsA,          \* pure projections: grouped result
    menuRows,       \* editor state: useState menuRows
    menuCategories, \* editor state: useState menuCategories
    lastOp,         \* editor: what the last handler did and its outcome
    selectedId,     \* editor state: useState selectedId ("" when none)
    inflight,       \* editor: the restaurants whose menu GET has not answered yet
    zoneStore,      \* delivery_zones table: the bag of its rows (without id, created_at)
    uniqueIndex,    \* delivery_zones: whether the index delivery_zones_unique exists
    reqs,           \* zones POST requests: one record per request slot
    botSessions,    \* bot_sessions table: the row of each restaurant_id, if any
    botReq,         \* create-bot POST: the request being served
    zoneForm,       \* zones tab: useState zoneForm, with zoneFormErrors.zones
    pendingZones,   \* zones tab: useState pendingZones
    customAreaText, \* zones tab: useState customAreaText
    zoneSaves       \* zones tab: the calls of addZone whose POST has not answered

vars == <<priceIn, priceOut, normIn, normOut, rowsIn, rowsPc, rowsA, rowsB, catsA,
          menuRows, menuCategories, lastOp, selectedId, inflight, zoneStore, uniqueIndex, reqs,
          botSessions, botReq, zoneForm, pendingZones, customAreaText, zoneSaves>>

normVars == <<normIn, normOut>>
priceVars == <<priceIn, priceOut, normVars>>
pureVars == <<rowsIn, rowsPc, rowsA, rowsB, catsA>>
formVars == <<zoneForm, pendingZones, customAreaText, zoneSaves>>
selVars == <<selectedId, inflight, formVars>>
menuVars == <<menuRows, menuCategories, lastOp, selVars>>
botVars == <<botSessions, botReq>>
zoneVars == <<zoneStore, uniqueIndex, reqs, botVars>>

(***************************************************************************)
(* Characters and text                                                     *)
(***************************************************************************)
UpperChars == <<"A","B","C","D","E","F","G","H","I","J","K","L","M",
                "N","O","P","Q","R","S","T","U","V","W","X","Y","Z">>
LowerChars == <<"a","b","c","d","e","f","g","h","i","j","k","l","m",
                "n","o","p","q","r","s","t","u","v","w","x","y","z">>
DigitChars == <<"0","1","2","3","4","5","6","7","8","9">>

Range(s) == {s[i] : i \in DOMAIN s}

SpaceSet == {" ", "\t", "\n", "\r"}
DigitSet == Range(DigitChars)
UpperSet == Range(UpperChars)
LowerSet == Range(LowerChars)

\* the lower-case letter of each upper-case letter
LowerOf == [c \in UpperSet |->
               LowerChars[CHOOSE i \in DOMAIN UpperChars : UpperChars[i] = c]]

\* the value of each decimal digit
ValueOf == [c \in DigitSet |-> (CHOOSE i \in DOMAIN DigitChars : DigitChars[i] = c) - 1]

IsSpace(c) == c \in SpaceSet
IsDigit(c) == c \in DigitSet

\* String.prototype.toLowerCase on one (ASCII) character
ToLowerChar(c) == IF c \in UpperSet THEN LowerOf[c] ELSE c

toLowerCase(s) == [i \in DOMAIN s |-> ToLowerChar(s[i])]

\* the character classes of the regular expressions of the code
InClass(c, cls) ==
    CASE cls = "space" -> IsSpace(c)                      \* \s
      [] cls = "slugbreak" -> c \notin LowerSet \cup DigitSet \* [^a-z0-9]
      [] cls = "hyphen" -> c = "-"                         \* -
      [] cls = "headerbreak" -> IsSpace(c) \/ c = "-"      \* [\s-]

RECURSIVE StripLeft(_, _)
\* drops the leading characters of s that are in the class
StripLeft(s, cls) ==
    IF s # <<>> /\ InClass(Head(s), cls) THEN StripLeft(Tail(s), cls) ELSE s

RECURSIVE StripRight(_, _)
StripRight(s, cls) ==
    IF s # <<>> /\ InClass(s[Len(s)], cls)
    THEN StripRight(SubSeq(s, 1, Len(s) - 1), cls)
    ELSE s

\* String.prototype.trim
trim(s) == StripRight(StripLeft(s, "space"), "space")

RECURSIVE ReplaceRuns(_, _, _)
\* s.replace(/<class>+/g, by): every maximal run of class characters becomes `by`
ReplaceRuns(s, cls, by) ==
    IF s = <<>> THEN <<>>
    ELSE IF InClass(Head(s), cls)
         THEN by \o ReplaceRuns(StripLeft(s, cls), cls, by)
         ELSE <<Head(s)>> \o ReplaceRuns(Tail(s), cls, by)

\* the sentinel for `undefined` in a text position (no text equals it)
Undefined == <<"undefined", "undefined">>

IsDefined(v) == v # Undefined

\* a || b on texts: b when a is the empty text
TextOr(a, b) == IF a # <<>> THEN a ELSE b

(***************************************************************************)
(* JavaScript numbers                                                      *)
(***************************************************************************)
NaN == [k |-> "nan", m |-> 0, e |-> 0]
NullNum == [k |-> "null", m |-> 0, e |-> 0]
UndefNum == [k |-> "undef", m |-> 0, e |-> 0]
PendingNum == [k |-> "pending", m |-> 0, e |-> 0]

RECURSIVE Canon(_, _)
\* the decimal m / 10^e without trailing fractional zeros (m >= 0)
Canon(m, e) ==
    IF e > 0 /\ m % 10 = 0 THEN Canon(m \div 10, e - 1)
    ELSE [k |-> "num", m |-> m, e |-> e]

Whole(n) == [k |-> "num", m |-> n, e |-> 0]

\* unary minus on a number, NaN staying NaN
Negate(x) == IF x.k = "num" THEN [x EXCEPT !.m = 0 - x.m] ELSE x

\* Number.isFinite
IsFinite(x) == x.k = "num"

RECURSIVE DecVal(_)
DecVal(ds) ==
    IF ds = <<>> THEN 0
    ELSE DecVal(SubSeq(ds, 1, Len(ds) - 1)) * 10 + ValueOf[ds[Len(ds)]]

AllDigits(s) == \A i \in DOMAIN s : IsDigit(s[i])

\* the value of the digits ip "." fp, one of the two possibly empty
Fraction(ip, fp) ==
    IF AllDigits(ip) /\ AllDigits(fp) /\ (ip # <<>> \/ fp # <<>>)
    THEN Canon(DecVal(ip \o fp), Len(fp))
    ELSE NaN

FirstDot(u) == CHOOSE i \in DOMAIN u : u[i] = "." /\ \A j \in 1..(i - 1) : u[j] # "."

\* the value of an unsigned decimal literal, NaN for any other text
Magnitude(u) ==
    IF \A i \in DOMAIN u : u[i] # "."
    THEN IF u # <<>> /\ AllDigits(u) THEN Whole(DecVal(u)) ELSE NaN
    ELSE Fraction(SubSeq(u, 1, FirstDot(u) - 1), SubSeq(u, FirstDot(u) + 1, Len(u)))

\* the value of a trimmed text: 0 for the empty text, else a signed literal
SignedNumber(t) ==
    IF t = <<>> THEN Whole(0)
    ELSE IF Head(t) = "-" THEN Negate(Magnitude(Tail(t)))
    ELSE IF Head(t) = "+" THEN Magnitude(Tail(t))
    ELSE Magnitude(t)

\* Number(text): ECMAScript StringToNumber on text made of whitespace, signs,
\* digits, the decimal point and other characters that belong to no numeric
\* literal; the empty (or blank) text is 0.  Exponents, the hex / octal /
\* binary prefixes and "Infinity" are outside the texts of this model.
StringToNumber(s) == SignedNumber(trim(s))

(***************************************************************************)
(* FieldNormalizer: page.tsx 519-544                                       *)
(***************************************************************************)
\* a variant that leaves the hyphens at the two ends in place
slugifyKeepEnds(value) ==
    TextOr(ReplaceRuns(toLowerCase(value), "slugbreak", <<"-">>), <<"i", "t", "e", "m">>)

\* value.toLowerCase().replace(/[^a-z0-9]+/g, "-").replace(/^-+|-+$/g, "") || "item"
slugify(value) ==
    TextOr(StripRight(StripLeft(ReplaceRuns(toLowerCase(value), "slugbreak", <<"-">>),
                                "hyphen"), "hyphen"),
           <<"i", "t", "e", "m">>)

Uncategorized == <<"U","n","c","a","t","e","g","o","r","i","z","e","d">>

\* value.replace(/\s+/g, " ").trim() || "Uncategorized"
normalizeCategory(value) == TextOr(trim(ReplaceRuns(value, "space", <<" ">>)), Uncategorized)

\* String(value ?? "").replace(/\s+/g, " ").trim()
normalizeText(value) ==
    trim(ReplaceRuns(IF IsDefined(value) THEN value ELSE <<>>, "space", <<" ">>))

IsPriceChar(c) == IsDigit(c) \/ c \in {".", "-"}

\* Number.isFinite(num) ? num : other
FiniteOr(num, other) == IF IsFinite(num) THEN num ELSE other

\* parsePrice from its second line on: raw is the normalized text
PriceOfText(raw) ==
    IF raw = <<>> THEN NullNum
    ELSE FiniteOr(StringToNumber(SelectSeq(raw, IsPriceChar)), NullNum)

parsePrice(value) == PriceOfText(normalizeText(value))

\* header.replace(/^\uFEFF/, "").trim().toLowerCase().replace(/[\s-]+/g, "_")
BOM == "\\uFEFF"

\* a variant that compares the header text as it is written
normalizeHeaderExact(header) == header

normalizeHeader(header) ==
    ReplaceRuns(toLowerCase(trim(IF header # <<>> /\ Head(header) = BOM
                                 THEN Tail(header) ELSE header)),
                "headerbreak", <<"_">>)

RECURSIVE NatToText(_)
\* `${n}` for a natural number
NatToText(n) ==
    IF n < 10 THEN <<DigitChars[n + 1]>>
    ELSE NatToText(n \div 10) \o <<DigitChars[(n % 10) + 1]>>

\* a JavaScript value handed to a normalizer: a string, null, undefined, a
\* number or a boolean
JsString(s) == [t |-> "string", s |-> s, n |-> NaN]
JsNull == [t |-> "null", s |-> <<>>, n |-> NaN]
JsUndefined == [t |-> "undefined", s |-> <<>>, n |-> NaN]
JsNumber(n) == [t |-> "number", s |-> <<>>, n |-> n]
JsTrue == [t |-> "boolean", s |-> <<>>, n |-> NaN]

\* the value as the text-or-undefined argument of normalizeText: String(v)
\* for a number (a natural number or NaN here) and for true
CellOf(v) ==
    CASE v.t = "string" -> v.s
      [] v.t \in {"null", "undefined"} -> Undefined
      [] v.t = "number" -> IF IsFinite(v.n) THEN NatToText(v.n.m) ELSE <<"N", "a", "N">>
      [] v.t = "boolean" -> <<"t", "r", "u", "e">>

\* how a call ended: with a text, with a number (or the null sentinel), or
\* with a TypeError
ReturnedText(fn, text) == [fn |-> fn, raised |-> FALSE, text |-> text, num |-> PendingNum]
ReturnedNumber(fn, num) == [fn |-> fn, raised |-> FALSE, text |-> <<>>, num |-> num]
RaisedTypeError(fn) == [fn |-> fn, raised |-> TRUE, text |-> <<>>, num |-> PendingNum]
NotCalled == [fn |-> "none", raised |-> FALSE, text |-> <<>>, num |-> PendingNum]

\* page.tsx 523-526 called with any value: value.replace is read from the
\* argument itself, which raises a TypeError for null and undefined (no
\* members) and for a number or a boolean (replace is not a function)
CallNormalizeCategory(v) ==
    IF v.t = "string" THEN ReturnedText("normalizeCategory", normalizeCategory(v.s))
    ELSE RaisedTypeError("normalizeCategory")

\* page.tsx 528-530 called with any value: header.replace, as above
CallNormalizeHeader(v) ==
    IF v.t = "string" THEN ReturnedText("normalizeHeader", normalizeHeader(v.s))
    ELSE RaisedTypeError("normalizeHeader")

\* page.tsx 532-536 called with any value: String(value ?? "") first
CallNormalizeText(v) == ReturnedText("normalizeText", normalizeText(CellOf(v)))

\* page.tsx 538-544 called with any value
CallParsePrice(v) == ReturnedNumber("parsePrice", parsePrice(CellOf(v)))

(***************************************************************************)
(* RowReconciler and CategoryProjector: page.tsx 546-595                   *)
(*   MenuRow  = [id, category, name, price, description]                   *)
(*   MenuItem = [id, name, price, description]                             *)
(*   MenuCategory = [name, items]                                          *)
(* description is a text or Undefined                                      *)
(***************************************************************************)
\* row.description?.trim() || undefined
TrimmedOrUndefined(d) ==
    IF IsDefined(d) /\ trim(d) # <<>> THEN trim(d) ELSE Undefined

\* a variant with one counter for the whole list
CounterAtShared(rows, i) == i

\* the value of counters.get(category) after the rows 1..i have been visited:
\* the Map is local to the call and every row advances its category's entry
CounterAt(rows, i) ==
    Cardinality({j \in 1..i :
        normalizeCategory(rows[j].category) = normalizeCategory(rows[i].category)})

SynthId(category, name, n) ==
    slugify(category) \o <<"-">> \o slugify(name) \o <<"-">> \o NatToText(n)

\* the row ensureRowIds returns for a row whose category counter is nextIndex
EnsuredRow(row, nextIndex) ==
    [id |-> TextOr(trim(row.id),
                   SynthId(normalizeCategory(row.category), trim(row.name), nextIndex)),
     category |-> normalizeCategory(row.category),
     name |-> trim(row.name),
     price |-> row.price,
     description |-> TrimmedOrUndefined(row.description)]

\* a variant that regenerates the id of every row, ignoring the one it carries
ensureRowIdsRegenerate(rows) ==
    [i \in DOMAIN rows |-> EnsuredRow([rows[i] EXCEPT !.id = <<>>], CounterAt(rows, i))]

\* a variant that makes a carried id "unique" by appending the counter to it
ensureRowIdsSuffix(rows) ==
    [i \in DOMAIN rows |->
        [EnsuredRow(rows[i], CounterAt(rows, i)) EXCEPT
            !.id = IF trim(rows[i].id) # <<>>
                   THEN @ \o <<"-">> \o NatToText(CounterAt(rows, i))
                   ELSE @]]

ensureRowIds(rows) == [i \in DOMAIN rows |-> EnsuredRow(rows[i], CounterAt(rows, i))]

\* the entry rowsToCategories builds for a row
RowEntry(row) ==
    [id |-> row.id,
     name |-> trim(row.name),
     price |-> row.price,
     description |-> TrimmedOrUndefined(row.description)]

\* a variant that tests the name only
RowSurvivesNamed(row) == trim(row.name) # <<>>

\* the row survives rowsToCategories: name non-empty after trim, price finite
RowSurvives(row) == trim(row.name) # <<>> /\ IsFinite(row.price)

\* the Map entry of a key, the Map being the sequence of its entries
\* [name, items] in insertion order
GroupAt(grouped, key) == CHOOSE g \in DOMAIN grouped : grouped[g].name = key

\* a variant that puts the entry at the front of its list
PutEntryFirst(grouped, key, entry) ==
    IF \A g \in DOMAIN grouped : grouped[g].name # key
    THEN Append(grouped, [name |-> key, items |-> <<entry>>])
    ELSE [grouped EXCEPT ![GroupAt(grouped, key)].items = <<entry>> \o @]

\* list = grouped.get(key) || []; list.push(entry); grouped.set(key, list)
PutEntry(grouped, key, entry) ==
    IF \A g \in DOMAIN grouped : grouped[g].name # key
    THEN Append(grouped, [name |-> key, items |-> <<entry>>])
    ELSE [grouped EXCEPT ![GroupAt(grouped, key)].items = Append(@, entry)]

RECURSIVE GroupInto(_, _)
\* rows.forEach: the rows that survive enter the Map under their normalized
\* category
GroupInto(rows, grouped) ==
    IF rows = <<>> THEN grouped
    ELSE GroupInto(Tail(rows),
                   IF RowSurvives(Head(rows))
                   THEN PutEntry(grouped, normalizeCategory(Head(rows).category),
                                 RowEntry(Head(rows)))
                   ELSE grouped)

rowsToCategories(rows) == GroupInto(rows, <<>>)

RECURSIVE Flatten(_)
\* the concatenation of a sequence of sequences (the flattening of flatMap)
Flatten(seqs) ==
    IF seqs = <<>> THEN <<>> ELSE Head(seqs) \o Flatten(Tail(seqs))

\* Number(p ?? 0)
NumberOrZero(p) == IF p.k \in {"null", "undef"} THEN Whole(0) ELSE p

\* the rows of one category in categoriesToRows
CategoryRows(cat) ==
    [i \in DOMAIN cat.items |->
        LET it == cat.items[i]
        IN  [id |-> IF IsDefined(it.id) THEN it.id ELSE <<>>,
             category |-> IF IsDefined(cat.name) /\ cat.name # <<>>
                          THEN cat.name ELSE Uncategorized,
             name |-> IF IsDefined(it.name) THEN it.name ELSE <<>>,
             price |-> NumberOrZero(it.price),
             description |-> TrimmedOrUndefined(it.description)]]

\* a variant that forgets the description of the items
categoriesToRowsNoDescription(cats) ==
    Flatten([c \in DOMAIN cats |->
                [i \in DOMAIN cats[c].items |->
                    [CategoryRows(cats[c])[i] EXCEPT !.description = Undefined]]])

categoriesToRows(cats) == Flatten([c \in DOMAIN cats |-> CategoryRows(cats[c])])

(***************************************************************************)
(* The loader of a stored menu: page.tsx 597-627                           *)
(* A stored value (menu_items_json) is [t, elems]: t is "undefined",       *)
(* "null", "scalar", "object" or "array".  An element of the array is      *)
(* [t, id, name, price, description, items]: t is "null", "scalar" or      *)
(* "object"; an absent or null member is Undefined / UndefNum; items is    *)
(* [t, elems] with t "absent" (absent, null, falsy), "truthy" (a truthy    *)
(* value that is no array) or "array" of [t, id, name, price, description].*)
(***************************************************************************)
\* the MenuItem built from a stored item at 0-based index idx - 1
StoredItem(it, idx) ==
    [id |-> IF IsDefined(it.id) /\ it.id # <<>> THEN it.id ELSE NatToText(idx),
     name |-> IF IsDefined(it.name) THEN it.name ELSE <<>>,
     price |-> NumberOrZero(it.price),
     description |-> it.description]

\* .filter((it) => it.name && Number.isFinite(it.price))
KeepItem(item) == item.name # <<>> /\ IsFinite(item.price)

\* elems.map(StoredItem).filter(KeepItem); a scalar element has no members
StoredItems(elems) ==
    SelectSeq([i \in DOMAIN elems |-> StoredItem(elems[i], i)], KeepItem)

\* reading a member of null raises a TypeError
ReadsNull(elems) == \E i \in DOMAIN elems : elems[i].t = "null"

\* incoming[0]?.items is truthy
HasItemsProbe(incoming) ==
    /\ incoming.t = "array"
    /\ incoming.elems # <<>>
    /\ incoming.elems[1].t = "object"
    /\ incoming.elems[1].items.t \in {"array", "truthy"}

\* the items array of a stored group ([] when it is no array)
ItemsOf(c) == IF c.t = "object" /\ c.items.t = "array" THEN c.items.elems ELSE <<>>

Threw == [threw |-> TRUE, cats |-> <<>>, rows |-> <<>>]

\* page.tsx 624-626: rows = categoriesToRows(cats)
LoadResult(cats) == [threw |-> FALSE, cats |-> cats, rows |-> categoriesToRows(cats)]

\* the branch for an array of groups with nested items
CanonicalLoad(incoming) ==
    IF \/ ReadsNull(incoming.elems)
       \/ \E i \in DOMAIN incoming.elems : ReadsNull(ItemsOf(incoming.elems[i]))
    THEN Threw
    ELSE LoadResult([i \in DOMAIN incoming.elems |->
                       [name |-> IF IsDefined(incoming.elems[i].name)
                                 THEN TextOr(incoming.elems[i].name, Uncategorized)
                                 ELSE Uncategorized,
                        items |-> StoredItems(ItemsOf(incoming.elems[i]))]])

\* cats = items.length ? [{ name: "Uncategorized", items }] : []
LegacyGroups(items) ==
    IF items # <<>> THEN <<[name |-> Uncategorized, items |-> items]>> ELSE <<>>

\* the branch for a flat array of items (the legacy shape)
LegacyLoad(incoming) ==
    IF ReadsNull(incoming.elems) THEN Threw
    ELSE LoadResult(LegacyGroups(StoredItems(incoming.elems)))

EmptyLoad == LoadResult(<<>>)

\* a variant without the probe of the first element: every non-empty array
\* is read as an array of groups
applyMenuJsonNoProbe(incoming) ==
    IF incoming.t = "array" /\ incoming.elems # <<>> THEN CanonicalLoad(incoming)
    ELSE EmptyLoad

\* what applyMenuJson hands to setMenuCategories / setMenuRows, or that it threw
applyMenuJson(incoming) ==
    IF HasItemsProbe(incoming) THEN CanonicalLoad(incoming)
    ELSE IF incoming.t = "array" THEN LegacyLoad(incoming)
    ELSE EmptyLoad

(***************************************************************************)
(* File import: page.tsx 647-729                                           *)
(* A picked file is [ext, problem, header, data]: ext is "csv", "xlsx" or  *)
(* "other"; problem is "none", "syntax" (the parser reports an error),     *)
(* "nosheet" or "empty" (workbook without sheet / sheet without rows);     *)
(* header is the header row and data the data rows, each a sequence of     *)
(* cell texts as long as the header.                                       *)
(***************************************************************************)
ItemNameHeader == <<"i", "t", "e", "m", "_", "n", "a", "m", "e">>
PriceHeader == <<"p", "r", "i", "c", "e">>
CategoryHeader == <<"c", "a", "t", "e", "g", "o", "r", "y">>
ItemIdHeader == <<"i", "t", "e", "m", "_", "i", "d">>
DescriptionHeader == <<"d", "e", "s", "c", "r", "i", "p", "t", "i", "o", "n">>

\* fieldMap.get(h) / headerIndex.get(h): the last column whose normalized
\* header is h, 0 when there is none
ColumnOf(header, h) ==
    IF \A i \in DOMAIN header : normalizeHeader(header[i]) # h THEN 0
    ELSE CHOOSE i \in DOMAIN header :
            /\ normalizeHeader(header[i]) = h
            /\ \A j \in (i + 1)..Len(header) : normalizeHeader(header[j]) # h

\* row[column]: undefined when the column is absent
Cell(header, row, h) ==
    IF ColumnOf(header, h) = 0 THEN Undefined ELSE row[ColumnOf(header, h)]

\* requiredHeaders.filter((h) => !normalized.includes(h))
MissingHeaders(header) ==
    SelectSeq(<<ItemNameHeader, PriceHeader>>, LAMBDA h : ColumnOf(header, h) = 0)

\* the flatMap callback from its third line on: a row without name or price
\* is dropped
ImportedRow(itemName, priceVal, category, itemId, description) ==
    IF itemName = <<>> \/ priceVal = NullNum THEN <<>>
    ELSE <<[id |-> itemId,
            category |-> category,
            name |-> itemName,
            price |-> priceVal,
            description |-> IF description = <<>> THEN Undefined ELSE description]>>

ImportRow(header, row) ==
    ImportedRow(normalizeText(Cell(header, row, ItemNameHeader)),
                parsePrice(Cell(header, row, PriceHeader)),
                normalizeCategory(normalizeText(Cell(header, row, CategoryHeader))),
                normalizeText(Cell(header, row, ItemIdHeader)),
                normalizeText(Cell(header, row, DescriptionHeader)))

ImportRows(file) ==
    Flatten([i \in DOMAIN file.data |-> ImportRow(file.header, file.data[i])])

Failed(msg) == [ok |-> FALSE, msg |-> msg, rows |-> <<>>]

MissingMessage(missing) ==
    IF Len(missing) = 2 THEN "Missing required columns: item_name, price."
    ELSE IF missing[1] = ItemNameHeader THEN "Missing required columns: item_name."
    ELSE "Missing required columns: price."

\* page.tsx 718-723
RowsOutcome(rows) ==
    IF rows = <<>> THEN Failed("No valid rows found in the file.")
    ELSE [ok |-> TRUE, msg |-> "Imported", rows |-> ensureRowIds(rows)]

\* the body of the try block: the rows to install, or the error thrown
importOutcome(file) ==
    IF file.ext = "other" THEN Failed("Only .csv and .xlsx files are supported.")
    ELSE IF file.problem = "syntax" THEN Failed("Failed to parse the file.")
    ELSE IF file.ext = "xlsx" /\ file.problem = "nosheet"
         THEN Failed("Excel file is missing a worksheet.")
    ELSE IF file.ext = "xlsx" /\ file.problem = "empty"
         THEN Failed("Excel file is empty.")
    ELSE IF MissingHeaders(file.header) # <<>>
         THEN Failed(MissingMessage(MissingHeaders(file.header)))
    ELSE RowsOutcome(ImportRows(file))

(***************************************************************************)
(* The delivery-zones POST: delivery-zones/route.ts 25-161                 *)
(* A raw zone of the request body is a record of the members normalizeZone *)
(* reads: texts (or Undefined) for city, zone_name, area; numbers (a       *)
(* record [k, m, e]: k = "undef", "null", "empty" for the empty text,      *)
(* "nan" for a non-finite number or a text that is no number) for the fee  *)
(* and minimum-order members; "true", "false" or "absent" for is_active    *)
(* and active.                                                             *)
(***************************************************************************)
EmptyText == [k |-> "empty", m |-> 0, e |-> 0]

\* value ?? other
OrElse(value, other) == IF value.k \in {"null", "undef"} THEN other ELSE value

\* route.ts 39-43: undefined for null, undefined and "", NaN for what is no
\* finite number
toNumber(value) ==
    IF value.k \in {"null", "undef", "empty"} THEN UndefNum
    ELSE IF value.k = "num" THEN value
    ELSE NaN

\* route.ts 45-48
toString(value) == IF IsDefined(value) THEN trim(value) ELSE <<>>

\* route.ts 50-64
normalizeZone(input, fallbackCity) ==
    [city |-> TextOr(toString(input.city), fallbackCity),
     zone_name |-> TextOr(toString(input.zone_name), toString(input.area)),
     delivery_fee |-> FiniteOr(toNumber(OrElse(input.delivery_fee, input.deliveryFee)), NaN),
     min_order_amount |->
         FiniteOr(toNumber(OrElse(OrElse(input.min_order_amount, input.minOrder),
                                  input.min_order)),
                  Whole(0)),
     is_active |-> IF input.is_active # "absent" THEN input.is_active = "true"
                   ELSE IF input.active # "absent" THEN input.active = "true"
                   ELSE TRUE]

\* a variant of the schema without the conditions on delivery_fee
SchemaAcceptsAnyFee(zones) ==
    /\ Len(zones) >= 1
    /\ \A i \in DOMAIN zones :
          /\ Len(zones[i].city) >= 1
          /\ Len(zones[i].zone_name) >= 1
          /\ IsFinite(zones[i].min_order_amount) /\ zones[i].min_order_amount.m >= 0

\* route.ts 25-37: NormalizedZonesSchema.safeParse succeeds
SchemaAccepts(zones) ==
    /\ Len(zones) >= 1
    /\ \A i \in DOMAIN zones :
          /\ Len(zones[i].city) >= 1
          /\ Len(zones[i].zone_name) >= 1
          /\ IsFinite(zones[i].delivery_fee) /\ zones[i].delivery_fee.m >= 0
          /\ IsFinite(zones[i].min_order_amount) /\ zones[i].min_order_amount.m >= 0

\* route.ts 100-115
RawZones(body) == IF body.isArray THEN body.zones ELSE <<body.top>>

\* route.ts 99, 117: the zones of the body, normalized
NormalizedZones(body) ==
    [i \in DOMAIN RawZones(body) |-> normalizeZone(RawZones(body)[i], toString(body.top.city))]

\* route.ts 124-131
ZoneRows(id, zones) ==
    [i \in DOMAIN zones |->
        [restaurant_id |-> id,
         city |-> zones[i].city,
         zone_name |-> zones[i].zone_name,
         delivery_fee |-> zones[i].delivery_fee,
         min_order_amount |-> zones[i].min_order_amount,
         is_active |-> zones[i].is_active]]

RECURSIVE PartitionByCity(_, _)
\* route.ts 134-139: zonesByCity as the sequence of its entries
\* [name |-> city, items |-> zone names]
PartitionByCity(rows, byCity) ==
    IF rows = <<>> THEN byCity
    ELSE PartitionByCity(Tail(rows), PutEntry(byCity, Head(rows).city, Head(rows).zone_name))

zonesByCity(rows) == PartitionByCity(rows, <<>>)

\* a variant of the handler without its deletes
DeleteMatchingNothing(store, id, city, zoneNames) == store

\* a variant of the delete that clears the whole city of the restaurant
DeleteMatchingWholeCity(store, id, city, zoneNames) ==
    [z \in {x \in BagToSet(store) : ~(x.restaurant_id = id /\ x.city = city)} |-> store[z]]

\* a variant of the delete without the city filter
DeleteMatchingAnyCity(store, id, city, zoneNames) ==
    [z \in {x \in BagToSet(store) : ~(/\ x.restaurant_id = id
                                       /\ x.zone_name \in Range(zoneNames))} |-> store[z]]

\* route.ts 142-147: delete().eq("restaurant_id", id).eq("city", city)
\*                   .in("zone_name", zoneNames)
DeleteMatching(store, id, city, zoneNames) ==
    [z \in {x \in BagToSet(store) : ~(/\ x.restaurant_id = id
                                       /\ x.city = city
                                       /\ x.zone_name \in Range(zoneNames))} |-> store[z]]

ZoneKey(z) == <<z.restaurant_id, z.city, z.zone_name>>

RECURSIVE BagOfSeq(_)
BagOfSeq(rows) ==
    IF rows = <<>> THEN EmptyBag ELSE SetToBag({Head(rows)}) (+) BagOfSeq(Tail(rows))

\* the insert would break delivery_zones_unique (route.ts 22-23)
BreaksUnique(store, rows) ==
    \/ \E i, j \in DOMAIN rows : i # j /\ ZoneKey(rows[i]) = ZoneKey(rows[j])
    \/ \E i \in DOMAIN rows : \E z \in BagToSet(store) : ZoneKey(z) = ZoneKey(rows[i])

\* lib/guards.ts 12-26: the restaurants row with this id and owner exists
Owner == [r \in {"R1", "R2"} |-> IF r = "R1" THEN "U1" ELSE "U2"]

OwnsRestaurant(restaurantId, ownerId) == Owner[restaurantId] = ownerId

\* route.ts 157, guards.ts 4 and route.ts 120: the messages the handler words itself
UnauthorizedText ==
    <<"U", "n", "a", "u", "t", "h", "o", "r", "i", "z", "e", "d">>
NotFoundText ==
    <<"R", "e", "s", "t", "a", "u", "r", "a", "n", "t", " ", "n", "o", "t", " ", "f", "o", "u", "n", "d">>
InvalidPayloadText ==
    <<"I", "n", "v", "a", "l", "i", "d", " ", "d", "e", "l", "i", "v", "e", "r", "y", " ", "z", "o", "n", "e", "s", " ", "p", "a", "y", "l", "o", "a", "d">>

\* messages that come from the gateway or the JSON parser: error.message of a
\* failed statement, e.message of a body that does not parse
QueryFailedText == <<"q", "u", "e", "r", "y", " ", "f", "a", "i", "l", "e", "d">>
DeleteFailedText == <<"d", "e", "l", "e", "t", "e", " ", "f", "a", "i", "l", "e", "d">>
InsertFailedText == <<"i", "n", "s", "e", "r", "t", " ", "f", "a", "i", "l", "e", "d">>
BadJsonText == <<"U", "n", "e", "x", "p", "e", "c", "t", "e", "d", " ", "t", "o", "k", "e", "n">>

\* one call of POST: its position, the values it computed, its response
\* and, for the record, the table as it was when the first write began
IdleRequest ==
    [pc |-> "idle", id |-> "", rows |-> <<>>, todo |-> <<>>, status |-> 0, error |-> <<>>,
     count |-> 0, before |-> EmptyBag]

Respond(q, status, error, count) ==
    reqs' = [reqs EXCEPT ![q] = [@ EXCEPT !.pc = "done", !.status = status,
                                          !.error = error, !.count = count]]

\* route.ts 90-139: the request up to the first gateway write.  caller is the
\* signed-in user ("" when there is none); the ownership query may fail
PostBegin(q, caller, id, body) ==
    /\ reqs[q].pc = "idle"
    /\ \E queryFails \in BOOLEAN :
          IF caller = "" THEN Respond(q, 401, UnauthorizedText, 0)
          ELSE IF queryFails THEN Respond(q, 500, QueryFailedText, 0)
          ELSE IF ~OwnsRestaurant(id, caller) THEN Respond(q, 404, NotFoundText, 0)
          ELSE IF body.malformed THEN Respond(q, 500, BadJsonText, 0)
          ELSE IF ~SchemaAccepts(NormalizedZones(body))
               THEN Respond(q, 400, InvalidPayloadText, 0)
          ELSE \E rows \in {ZoneRows(id, NormalizedZones(body))} :
                  reqs' = [reqs EXCEPT ![q] = [IdleRequest EXCEPT
                              !.pc = "delete", !.id = id, !.rows = rows,
                              !.todo = zonesByCity(rows), !.before = zoneStore]]
    /\ UNCHANGED <<zoneStore, uniqueIndex, botVars, priceVars, pureVars, menuVars>>

\* route.ts 141-150: one turn of the loop over zonesByCity
PostDelete(q) ==
    /\ reqs[q].pc = "delete"
    /\ \E deleteFails \in BOOLEAN :
          IF deleteFails
          THEN /\ Respond(q, 500, DeleteFailedText, 0)
               /\ UNCHANGED zoneStore
          ELSE /\ zoneStore' = DeleteMatching(zoneStore, reqs[q].id,
                                              Head(reqs[q].todo).name, Head(reqs[q].todo).items)
               /\ reqs' = [reqs EXCEPT ![q].todo = Tail(@),
                                       ![q].pc = IF Tail(reqs[q].todo) = <<>>
                                                 THEN "insert" ELSE "delete"]
    /\ UNCHANGED <<uniqueIndex, botVars, priceVars, pureVars, menuVars>>

\* route.ts 152-155: the insert of the whole batch, one statement
PostInsert(q) ==
    /\ reqs[q].pc = "insert"
    /\ \E insertFails \in BOOLEAN :
          /\ (uniqueIndex /\ BreaksUnique(zoneStore, reqs[q].rows)) => insertFails
          /\ IF insertFails
             THEN /\ Respond(q, 500, InsertFailedText, 0)
                  /\ UNCHANGED zoneStore
             ELSE /\ zoneStore' = zoneStore (+) BagOfSeq(reqs[q].rows)
                  /\ Respond(q, 200, <<>>, Len(reqs[q].rows))
    /\ UNCHANGED <<uniqueIndex, botVars, priceVars, pureVars, menuVars>>

\* the response has been returned; the slot serves the next request
PostEnd(q) ==
    /\ reqs[q].pc = "done"
    /\ reqs' = [reqs EXCEPT ![q] = IdleRequest]
    /\ UNCHANGED <<zoneStore, uniqueIndex, botVars, priceVars, pureVars, menuVars>>

(***************************************************************************)
(* The create-bot endpoint: api/restaurants/route.ts 86-265                *)
(*   a bot_sessions row is [status, service]: status "none" when the       *)
(*   restaurant has no row, service whether service_url and                *)
(*   render_service_id are set                                             *)
(***************************************************************************)
NoSession == [status |-> "none", service |-> FALSE]

\* upsert({restaurant_id, status: "creating", service_url: null,
\*         render_service_id: null, ...}, {onConflict: "restaurant_id"})
UpsertCreating(sessions, id) ==
    [sessions EXCEPT ![id] = [status |-> "creating", service |-> FALSE]]

\* upsert({restaurant_id, status: "creating", render_service_id, service_url, ...})
UpsertCreated(sessions, id) ==
    [sessions EXCEPT ![id] = [status |-> "creating", service |-> TRUE]]

\* upsert({restaurant_id, status: "disconnected", updated_at}): the other
\* columns of an existing row stay
UpsertDisconnected(sessions, id) ==
    [sessions EXCEPT ![id] = [@ EXCEPT !.status = "disconnected"]]

\* let restaurantId = "" and the request before it is read
IdleBotRequest ==
    [pc |-> "idle", caller |-> "", restaurantId |-> "", thrown |-> "none", status |-> 0]

BotRespond(status) == botReq' = [botReq EXCEPT !.pc = "done", !.status = status]

\* throw: control moves to the catch block of lines 246-264
BotThrow(req, thrown) == [req EXCEPT !.pc = "catch", !.thrown = thrown]

\* route.ts 87-118: the request up to the first write.  body is
\* [malformed, restaurant_id]; the ownership query may fail and the
\* deployment may lack its Render or service-role settings
BotBegin(caller, body) ==
    /\ botReq.pc = "idle"
    /\ \E queryFails, configured \in BOOLEAN :
          botReq' =
            IF caller = "" THEN BotThrow([botReq EXCEPT !.caller = caller], "UnauthorizedError")
            ELSE IF body.malformed
            THEN BotThrow([botReq EXCEPT !.caller = caller], "Error")
            ELSE IF body.restaurant_id = ""
            THEN [botReq EXCEPT !.caller = caller, !.pc = "done", !.status = 422]
            ELSE IF queryFails
            THEN BotThrow([botReq EXCEPT !.caller = caller,
                                         !.restaurantId = body.restaurant_id], "Error")
            ELSE IF ~OwnsRestaurant(body.restaurant_id, caller)
            THEN BotThrow([botReq EXCEPT !.caller = caller,
                                         !.restaurantId = body.restaurant_id], "NotFoundError")
            ELSE IF ~configured
            THEN BotThrow([botReq EXCEPT !.caller = caller,
                                         !.restaurantId = body.restaurant_id], "Error")
            ELSE [botReq EXCEPT !.caller = caller, !.restaurantId = body.restaurant_id,
                                !.pc = "init"]
    /\ UNCHANGED <<botSessions, zoneStore, uniqueIndex, reqs, priceVars, pureVars, menuVars>>

\* route.ts 120-135: the row is set to "creating"
BotInitUpsert ==
    /\ botReq.pc = "init"
    /\ \E initError \in BOOLEAN :
          IF initError
          THEN /\ botReq' = BotThrow(botReq, "Error")
               /\ UNCHANGED botSessions
          ELSE /\ botSessions' = UpsertCreating(botSessions, botReq.restaurantId)
               /\ botReq' = [botReq EXCEPT !.pc = "render"]
    /\ UNCHANGED <<zoneStore, uniqueIndex, reqs, priceVars, pureVars, menuVars>>

\* route.ts 137-218: the call of the Render API.  It raises (fetch rejects,
\* or the answer lacks the service id or url), answers with an error status,
\* or answers with the service
BotRender ==
    /\ botReq.pc = "render"
    /\ \E outcome \in {"raised", "refused", "created"} :
          botReq' = CASE outcome = "raised" -> BotThrow(botReq, "Error")
                      [] outcome = "refused" -> [botReq EXCEPT !.pc = "refused"]
                      [] outcome = "created" -> [botReq EXCEPT !.pc = "final"]
    /\ UNCHANGED <<botSessions, zoneStore, uniqueIndex, reqs, priceVars, pureVars, menuVars>>

\* route.ts 192-207: Render refused; the upsert's result is not examined
BotRefused ==
    /\ botReq.pc = "refused"
    /\ \E written \in BOOLEAN :
          botSessions' = IF written THEN UpsertDisconnected(botSessions, botReq.restaurantId)
                         ELSE botSessions
    /\ BotRespond(400)
    /\ UNCHANGED <<zoneStore, uniqueIndex, reqs, priceVars, pureVars, menuVars>>

\* route.ts 220-245: the row receives the service
BotFinalUpsert ==
    /\ botReq.pc = "final"
    /\ \E updateError \in BOOLEAN :
          IF updateError
          THEN /\ botReq' = BotThrow(botReq, "Error")
               /\ UNCHANGED botSessions
          ELSE /\ botSessions' = UpsertCreated(botSessions, botReq.restaurantId)
               /\ BotRespond(200)
    /\ UNCHANGED <<zoneStore, uniqueIndex, reqs, priceVars, pureVars, menuVars>>

\* route.ts 246-264: the catch block; the upsert's result is not examined
BotCatch ==
    /\ botReq.pc = "catch"
    /\ \E written \in BOOLEAN :
          botSessions' = IF botReq.restaurantId # "" /\ written
                         THEN UpsertDisconnected(botSessions, botReq.restaurantId)
                         ELSE botSessions
    /\ BotRespond(CASE botReq.thrown = "UnauthorizedError" -> 401
                     [] botReq.thrown = "NotFoundError" -> 404
                     [] OTHER -> 500)
    /\ UNCHANGED <<zoneStore, uniqueIndex, reqs, priceVars, pureVars, menuVars>>

\* the response has been returned
BotEnd ==
    /\ botReq.pc = "done"
    /\ botReq' = IdleBotRequest
    /\ UNCHANGED <<botSessions, zoneStore, uniqueIndex, reqs, priceVars, pureVars, menuVars>>

(***************************************************************************)
(* The variable groups at rest: a specification that exercises one part    *)
(* of the program leaves the other parts in these states                   *)
(***************************************************************************)
NoOp == [op |-> "none", ok |-> TRUE, msg |-> "", threw |-> FALSE, arg |-> <<>>]

\* page.tsx 69-76
CITY_OPTIONS == <<"Karachi", "Hyderabad", "Islamabad">>

CITY_AREAS ==
    [city \in {"Karachi", "Hyderabad", "Islamabad"} |->
        CASE city = "Karachi" ->
                <<<<"G", "u", "l", "s", "h", "a", "n">>,
                  <<"J", "o", "h", "a", "r">>,
                  <<"D", "H", "A">>,
                  <<"C", "l", "i", "f", "t", "o", "n">>,
                  <<"N", "o", "r", "t", "h", " ", "N", "a", "z", "i", "m", "a", "b", "a", "d">>>>
          [] city = "Hyderabad" ->
                <<<<"L", "a", "t", "i", "f", "a", "b", "a", "d">>,
                  <<"Q", "a", "s", "i", "m", "a", "b", "a", "d">>,
                  <<"A", "u", "t", "o", "b", "a", "h", "n">>>>
          [] OTHER ->
                <<<<"F", "-", "6">>, <<"F", "-", "7">>,
                  <<"G", "-", "1", "0">>, <<"I", "-", "8">>>>]

\* page.tsx 395-408: the zones tab as useState leaves it
InitialZoneForm == [city |-> "Karachi", selectedAreas |-> <<>>, errors |-> ""]

IdleForm ==
    /\ zoneForm = InitialZoneForm /\ pendingZones = <<>>
    /\ customAreaText = <<>> /\ zoneSaves = 0

IdleNorm == normIn = JsUndefined /\ normOut = NotCalled
IdlePrice == priceIn = <<>> /\ priceOut = PendingNum /\ IdleNorm
IdlePure == rowsIn = <<>> /\ rowsPc = "idle" /\ rowsA = <<>> /\ rowsB = <<>> /\ catsA = <<>>
IdleMenu ==
    /\ menuRows = <<>> /\ menuCategories = <<>> /\ lastOp = NoOp
    /\ selectedId = "" /\ inflight = {} /\ IdleForm
IdleBot == botSessions = <<>> /\ botReq = IdleBotRequest
IdleZones == zoneStore = EmptyBag /\ uniqueIndex = TRUE /\ reqs = <<>> /\ IdleBot

(***************************************************************************)
(* Specification SpecPrice: parsePrice applied to one cell value           *)
(***************************************************************************)
MaxPriceLen == 3

PriceAlphabet == {"4", "0", ".", "-", "a", " "}

RECURSIVE TextsUpTo(_, _)
\* every text of at most n characters over the alphabet
TextsUpTo(alphabet, n) ==
    IF n = 0 THEN {<<>>}
    ELSE LET shorter == TextsUpTo(alphabet, n - 1)
         IN  shorter \cup {Append(t, c) : t \in shorter, c \in alphabet}

PKR1250 == <<"P","K","R"," ","1",",","2","5","0">>
Text450 == <<"4","5","0">>
TextAbc == <<"a","b","c">>

PriceTexts ==
    TextsUpTo(PriceAlphabet, MaxPriceLen) \cup {PKR1250, Text450, TextAbc, Undefined}

InitPrice ==
    /\ priceIn \in PriceTexts
    /\ priceOut = PendingNum
    /\ IdleNorm /\ IdlePure /\ IdleMenu /\ IdleZones

ApplyParsePrice ==
    /\ priceOut = PendingNum
    /\ priceOut' = parsePrice(priceIn)
    /\ UNCHANGED <<priceIn, normVars, pureVars, menuVars, zoneVars>>

NextPrice == ApplyParsePrice

SpecPrice == InitPrice /\ [][NextPrice]_vars

HasDigit(text) == IsDefined(text) /\ \E i \in DOMAIN text : IsDigit(text[i])

\* C4: parsePrice returns null for every value that holds no parseable number
\* (the empty text, a digit-free text such as "abc") and the numeric value of
\* a decorated number ("PKR 1,250" is 1250, "450" is 450).
PriceCoercion ==
    priceOut # PendingNum =>
        /\ (~HasDigit(priceIn) => priceOut = NullNum)
        /\ (priceIn = PKR1250 => priceOut = Whole(1250))
        /\ (priceIn = Text450 => priceOut = Whole(450))

(***************************************************************************)
(* Specification SpecNormalize: each normalizer called once with a value   *)
(* of any kind                                                             *)
(***************************************************************************)
MaxNormLen == 2

NormAlphabet == {"A", " ", "-", "4"}

NormInputs ==
    {JsString(s) : s \in TextsUpTo(NormAlphabet, MaxNormLen) \cup {<<BOM, "A">>}}
    \cup {JsNull, JsUndefined, JsNumber(Whole(5)), JsNumber(NaN), JsTrue}

InitNormalize ==
    /\ normIn \in NormInputs
    /\ normOut = NotCalled
    /\ priceIn = <<>> /\ priceOut = PendingNum
    /\ IdlePure /\ IdleMenu /\ IdleZones

ApplyNormalizeCategory ==
    /\ normOut = NotCalled
    /\ normOut' = CallNormalizeCategory(normIn)
    /\ UNCHANGED <<normIn, priceIn, priceOut, pureVars, menuVars, zoneVars>>

ApplyNormalizeHeader ==
    /\ normOut = NotCalled
    /\ normOut' = CallNormalizeHeader(normIn)
    /\ UNCHANGED <<normIn, priceIn, priceOut, pureVars, menuVars, zoneVars>>

ApplyNormalizeText ==
    /\ normOut = NotCalled
    /\ normOut' = CallNormalizeText(normIn)
    /\ UNCHANGED <<normIn, priceIn, priceOut, pureVars, menuVars, zoneVars>>

ApplyParsePriceOfValue ==
    /\ normOut = NotCalled
    /\ normOut' = CallParsePrice(normIn)
    /\ UNCHANGED <<normIn, priceIn, priceOut, pureVars, menuVars, zoneVars>>

NextNormalize ==
    \/ ApplyNormalizeCategory
    \/ ApplyNormalizeHeader
    \/ ApplyNormalizeText
    \/ ApplyParsePriceOfValue

SpecNormalize == InitNormalize /\ [][NextNormalize]_vars

\* C23: all normalization functions are total: normalizeHeader,
\* normalizeText, parsePrice and normalizeCategory, given any input including
\* a non-string, null or absent value, return a value or the null sentinel
\* and never raise.
NormalizersTotal == ~normOut.raised

(***************************************************************************)
(* Specification SpecRows: identity assignment and the two projections     *)
(* applied to an arbitrary row list                                        *)
(***************************************************************************)
MaxRowsIn == 3

Row(id, category, name, price, description) ==
    [id |-> id, category |-> category, name |-> name, price |-> price,
     description |-> description]

IdTexts == {<<>>, <<"k">>, <<" ", "k">>}
CategoryTexts == {<<"B">>, <<"b">>, <<" ", "B">>}
NameTexts == {<<"a">>, <<" ", "a">>, <<" ">>}

RowInputs ==
    {Row(id, c, n, Whole(450), Undefined) :
        id \in IdTexts, c \in CategoryTexts, n \in NameTexts}
    \cup {Row(<<>>, <<"B">>, <<"a">>, p, d) :
            p \in {Whole(450), NaN},
            d \in {<<"d">>, <<"d", " ">>, <<" ">>}}
    \cup {Row(<<" ">>, <<>>, <<"A", "!">>, Canon(15, 1), Undefined),
          Row(<<>>, <<"b", "\t", " ", "c">>, <<>>, Negate(Whole(5)), <<"d">>)}

RECURSIVE SeqsUpTo(_, _)
\* every sequence of at most n elements of S
SeqsUpTo(S, n) ==
    IF n = 0 THEN {<<>>}
    ELSE LET shorter == SeqsUpTo(S, n - 1)
         IN  shorter \cup {Append(q, x) : q \in shorter, x \in S}

InitRows ==
    /\ rowsIn \in SeqsUpTo(RowInputs, MaxRowsIn)
    /\ rowsPc = "start"
    /\ rowsA = <<>> /\ rowsB = <<>> /\ catsA = <<>>
    /\ IdlePrice /\ IdleMenu /\ IdleZones

AssignIds ==
    /\ rowsPc = "start"
    /\ rowsA' = ensureRowIds(rowsIn)
    /\ rowsPc' = "ids"
    /\ UNCHANGED <<rowsIn, rowsB, catsA, priceVars, menuVars, zoneVars>>

AssignIdsAgain ==
    /\ rowsPc = "ids"
    /\ rowsB' = ensureRowIds(rowsA)
    /\ rowsPc' = "ids2"
    /\ UNCHANGED <<rowsIn, rowsA, catsA, priceVars, menuVars, zoneVars>>

ProjectRows ==
    /\ rowsPc = "start"
    /\ catsA' = rowsToCategories(rowsIn)
    /\ rowsPc' = "grouped"
    /\ UNCHANGED <<rowsIn, rowsA, rowsB, priceVars, menuVars, zoneVars>>

FlattenCategories ==
    /\ rowsPc = "grouped"
    /\ rowsA' = categoriesToRows(catsA)
    /\ rowsPc' = "flat"
    /\ UNCHANGED <<rowsIn, rowsB, catsA, priceVars, menuVars, zoneVars>>

RoundTripAgain ==
    /\ rowsPc = "flat"
    /\ rowsB' = categoriesToRows(rowsToCategories(rowsA))
    /\ rowsPc' = "flat2"
    /\ UNCHANGED <<rowsIn, rowsA, catsA, priceVars, menuVars, zoneVars>>

NextRows ==
    \/ AssignIds
    \/ AssignIdsAgain
    \/ ProjectRows
    \/ FlattenCategories
    \/ RoundTripAgain

SpecRows == InitRows /\ [][NextRows]_vars

\* the rows of a list as a set of (name, price, description)
Triples(rows) == {<<rows[i].name, rows[i].price, rows[i].description>> : i \in DOMAIN rows}

UniquePairs(rows) ==
    \A i, j \in DOMAIN rows :
        (rows[i].category = rows[j].category /\ rows[i].name = rows[j].name) => i = j

\* valid as the specification words it: non-empty name, finite price
ValidRows(rows) ==
    /\ rows # <<>>
    /\ \A i \in DOMAIN rows : rows[i].name # <<>> /\ IsFinite(rows[i].price)
    /\ UniquePairs(rows)

\* name and description carry no padding (what the reconciler hands on)
TrimmedRows(rows) ==
    \A i \in DOMAIN rows :
        /\ trim(rows[i].name) = rows[i].name
        /\ TrimmedOrUndefined(rows[i].description) = rows[i].description

RoundTripDone == rowsPc \in {"flat", "flat2"}

\* C3 as stated: for any non-empty list of valid rows (non-empty name, finite
\* price) with unique (category, name) pairs, rows -> groups -> rows yields a
\* set of rows equal to the input by (name, price, description).
RoundTripAsStated ==
    (RoundTripDone /\ ValidRows(rowsIn)) => Triples(rowsA) = Triples(rowsIn)

\* C3 amended: the same, for rows whose name and description carry no leading
\* or trailing whitespace (a description being absent or non-empty); and for
\* any row list, applying the pair again changes neither the row count nor any
\* name or price.
RoundTripTrimmed ==
    /\ (RoundTripDone /\ ValidRows(rowsIn) /\ TrimmedRows(rowsIn)) =>
          /\ Triples(rowsA) = Triples(rowsIn)
          /\ Len(rowsA) = Len(rowsIn)
    /\ rowsPc = "flat2" =>
          /\ Len(rowsB) = Len(rowsA)
          /\ \A i \in DOMAIN rowsA :
                rowsB[i].name = rowsA[i].name /\ rowsB[i].price = rowsA[i].price

RoundTripWitness ==
    /\ rowsPc = "flat2"
    /\ ValidRows(rowsIn) /\ TrimmedRows(rowsIn)
    /\ Len(rowsIn) >= 2
    /\ Len(catsA) >= 2
    /\ \E i \in DOMAIN rowsIn : rowsIn[i].description # Undefined
    /\ \E i \in DOMAIN rowsIn : rowsIn[i].id # <<>>

\* C6: identity assignment applied to its own output gives every row position
\* the id the first application gave it.
IdsIdempotent ==
    rowsPc = "ids2" =>
        /\ Len(rowsB) = Len(rowsA)
        /\ \A i \in DOMAIN rowsA : rowsB[i].id = rowsA[i].id

IdsIdempotentWitness ==
    /\ rowsPc = "ids2"
    /\ Len(rowsIn) >= 2
    /\ \E i \in DOMAIN rowsIn : trim(rowsIn[i].id) = <<>>
    /\ \E i \in DOMAIN rowsIn : trim(rowsIn[i].id) # <<>> /\ rowsIn[i].id # trim(rowsIn[i].id)

\* C7 as stated: every row whose id is non-empty keeps that id character for
\* character.
ExplicitIdVerbatim ==
    rowsPc \in {"ids", "ids2"} =>
        \A i \in DOMAIN rowsIn : rowsIn[i].id # <<>> => rowsA[i].id = rowsIn[i].id

\* C7 amended: every row whose id is non-empty after trimming keeps that id
\* without its leading and trailing whitespace, hence character for character
\* when the id carries none; a blank id counts as absent.
ExplicitIdTrimmed ==
    rowsPc \in {"ids", "ids2"} =>
        \A i \in DOMAIN rowsIn :
            LET id == rowsIn[i].id
                Padding == {j \in DOMAIN id : IsSpace(id[j])}
                first == CHOOSE j \in DOMAIN id \ Padding :
                            \A l \in DOMAIN id \ Padding : j <= l
                last == CHOOSE j \in DOMAIN id \ Padding :
                            \A l \in DOMAIN id \ Padding : l <= j
            IN  /\ (id # <<>> /\ ~IsSpace(id[1]) /\ ~IsSpace(id[Len(id)]))
                      => rowsA[i].id = id
                /\ (DOMAIN id \ Padding # {})
                      => rowsA[i].id = SubSeq(id, first, last)

ExplicitIdWitness ==
    /\ rowsPc = "ids"
    /\ \E i \in DOMAIN rowsIn : rowsIn[i].id = <<"k">> /\ rowsA[i].id = <<"k">>
    /\ \E i \in DOMAIN rowsIn : rowsIn[i].id = <<" ", "k">>

\* catsA holds rowsToCategories(rowsIn)
Projected == rowsPc \in {"grouped", "flat", "flat2"}

\* the positions of the rows with a non-empty trimmed name and a finite
\* price whose category normalizes to key
KeptAt(rows, key) ==
    {i \in DOMAIN rows : /\ trim(rows[i].name) # <<>>
                         /\ rows[i].price.k = "num"
                         /\ normalizeCategory(rows[i].category) = key}

\* the k-th smallest member of a set of positions
Nth(S, k) == CHOOSE i \in S : Cardinality({j \in S : j <= i}) = k

Least(S) == CHOOSE i \in S : \A j \in S : i <= j

\* C17: the rows to groups projection preserves order: groups appear in the
\* order in which the first row of each group appears in the flat list, and
\* inside a group the items keep the relative order of their rows.
GroupingKeepsOrder ==
    Projected =>
        /\ \A g, h \in DOMAIN catsA :
              g < h => Least(KeptAt(rowsIn, catsA[g].name)) < Least(KeptAt(rowsIn, catsA[h].name))
        /\ \A g \in DOMAIN catsA : \A k \in DOMAIN catsA[g].items :
              /\ k <= Cardinality(KeptAt(rowsIn, catsA[g].name))
              /\ catsA[g].items[k] = RowEntry(rowsIn[Nth(KeptAt(rowsIn, catsA[g].name), k)])

\* two rows of one group that differ, after a row of another group
GroupingKeepsOrderWitness ==
    /\ Projected
    /\ Len(catsA) = 2
    /\ \E g \in DOMAIN catsA :
          /\ Len(catsA[g].items) = 2
          /\ catsA[g].items[1] # catsA[g].items[2]

\* C18: rowsToCategories outputs exactly the rows that have a non-empty
\* trimmed name and a finite price, each as one item of the group of its
\* normalized category, and outputs no group with zero items.
GroupingKeepsExactlyValidRows ==
    Projected =>
        /\ \A g \in DOMAIN catsA :
              /\ catsA[g].items # <<>>
              /\ Len(catsA[g].items) = Cardinality(KeptAt(rowsIn, catsA[g].name))
              /\ \A h \in DOMAIN catsA : catsA[h].name = catsA[g].name => h = g
        /\ \A i \in DOMAIN rowsIn :
              (trim(rowsIn[i].name) # <<>> /\ rowsIn[i].price.k = "num")
                 => \E g \in DOMAIN catsA :
                       /\ catsA[g].name = normalizeCategory(rowsIn[i].category)
                       /\ \E k \in DOMAIN catsA[g].items :
                             catsA[g].items[k] = RowEntry(rowsIn[i])

\* a row with a blank name and a row with a price that is not a number were
\* left out beside a row that was kept
GroupingKeepsExactlyWitness ==
    /\ Projected
    /\ catsA # <<>>
    /\ \E i \in DOMAIN rowsIn :
          (trim(rowsIn[i].name) = <<>> \/ rowsIn[i].price.k # "num")
    /\ Len(rowsIn) = MaxRowsIn

\* the text is made of lowercase letters and digits only
IsWord(t) == t # <<>> /\ \A i \in DOMAIN t : t[i] \in LowerSet \cup DigitSet

RECURSIVE LowerWords(_, _)
\* the maximal runs of letters and digits of a text, lowercased, in order;
\* word is the run being read
LowerWords(t, word) ==
    IF t = <<>> THEN (IF word = <<>> THEN <<>> ELSE <<word>>)
    ELSE IF ToLowerChar(Head(t)) \in LowerSet \cup DigitSet
         THEN LowerWords(Tail(t), Append(word, ToLowerChar(Head(t))))
         ELSE (IF word = <<>> THEN <<>> ELSE <<word>>) \o LowerWords(Tail(t), <<>>)

RECURSIVE JoinHyphen(_)
JoinHyphen(words) ==
    IF words = <<>> THEN <<>>
    ELSE IF Len(words) = 1 THEN words[1]
    ELSE words[1] \o <<"-">> \o JoinHyphen(Tail(words))

\* slug as the specification words it: the lowercased runs of letters and
\* digits joined by single hyphens, "item" when there is none
SlugAsSpecified(t) ==
    IF LowerWords(t, <<>>) = <<>> THEN <<"i", "t", "e", "m">>
    ELSE JoinHyphen(LowerWords(t, <<>>))

\* how many of the rows 1..i are of the group of row i
RowsOfGroupUpTo(rows, i) ==
    Cardinality({j \in 1..i :
        normalizeCategory(rows[j].category) = normalizeCategory(rows[i].category)})

\* C21: for a row without an id ensureRowIds synthesizes slug(group) + "-" +
\* slug(name) + "-" + n, n being a 1-based counter kept per group and
\* advanced in row order; slug lowercases, turns each run of non-alphanumeric
\* characters into one hyphen, strips leading and trailing hyphens and yields
\* "item" when nothing is left.
SynthesizedIdFormat ==
    rowsPc \in {"ids", "ids2"} =>
        \A i \in DOMAIN rowsIn :
            trim(rowsIn[i].id) = <<>> =>
                rowsA[i].id = SlugAsSpecified(normalizeCategory(rowsIn[i].category))
                              \o <<"-">> \o SlugAsSpecified(trim(rowsIn[i].name))
                              \o <<"-">> \o NatToText(RowsOfGroupUpTo(rowsIn, i))

\* ids were synthesized for a name that ends in punctuation, for an empty
\* name and for the second row of a group
SynthesizedIdWitness ==
    /\ rowsPc = "ids"
    /\ \E i \in DOMAIN rowsIn :
          trim(rowsIn[i].id) = <<>> /\ rowsIn[i].name = <<"A", "!">>
    /\ \E i \in DOMAIN rowsIn :
          trim(rowsIn[i].id) = <<>> /\ rowsIn[i].name = <<>>
    /\ \E i \in DOMAIN rowsIn :
          trim(rowsIn[i].id) = <<>> /\ RowsOfGroupUpTo(rowsIn, i) = 2

\* the rows of a list whose category normalizes to key, in order
GroupRows(rows, key) ==
    SelectSeq(rows, LAMBDA r : normalizeCategory(r.category) = key)

IdsOf(rows) == [i \in DOMAIN rows |-> rows[i].id]

\* C22: identity assignment does not renumber unrelated groups: the ids that
\* ensureRowIds gives to the rows of a group depend only on that group's rows
\* and their relative order (they are the ids it gives to the group's rows
\* taken alone), so rows of other groups added, removed or moved leave them
\* unchanged, and no count is carried from one call to the next.
GroupIdsIndependent ==
    /\ rowsPc \in {"ids", "ids2"} =>
          \A i \in DOMAIN rowsIn :
              IdsOf(GroupRows(rowsA, normalizeCategory(rowsIn[i].category)))
                = IdsOf(ensureRowIds(GroupRows(rowsIn, normalizeCategory(rowsIn[i].category))))
    /\ rowsPc = "ids2" => IdsOf(rowsB) = IdsOf(rowsA)

\* three rows without ids, the second of another group than the first and
\* the third
GroupIdsIndependentWitness ==
    /\ rowsPc = "ids2"
    /\ Len(rowsIn) = 3
    /\ \A i \in DOMAIN rowsIn : trim(rowsIn[i].id) = <<>>
    /\ normalizeCategory(rowsIn[1].category) = normalizeCategory(rowsIn[3].category)
    /\ normalizeCategory(rowsIn[1].category) # normalizeCategory(rowsIn[2].category)

\* the group key of a category under case-insensitive, trimmed comparison
FoldedKey(category) == toLowerCase(normalizeCategory(category))

\* C8: grouping is case-insensitive and whitespace-trimmed: rows whose group
\* names differ only in letter case or padding land in the same group (one
\* group per folded key) and share one id counter (the k-th row of a folded
\* key is numbered k).
GroupingCaseInsensitive ==
    /\ rowsPc = "grouped" =>
          Len(catsA) = Cardinality({FoldedKey(rowsIn[i].category) :
                                      i \in {j \in DOMAIN rowsIn : RowSurvives(rowsIn[j])}})
    /\ rowsPc = "ids" =>
          \A i \in DOMAIN rowsIn :
              trim(rowsIn[i].id) = <<>> =>
                  rowsA[i].id = SynthId(normalizeCategory(rowsIn[i].category),
                                        trim(rowsIn[i].name),
                                        Cardinality({j \in 1..i :
                                            FoldedKey(rowsIn[j].category)
                                              = FoldedKey(rowsIn[i].category)}))

(***************************************************************************)
(* The menu editor: the handlers of page.tsx that set menuRows and         *)
(* menuCategories.  lastOp records the handler that ran last: its name,    *)
(* whether it succeeded, the message it showed, whether applyMenuJson      *)
(* threw, and (load, import) the value it was given.                       *)
(***************************************************************************)
Op(op, ok, msg, threw, arg) ==
    [op |-> op, ok |-> ok, msg |-> msg, threw |-> threw, arg |-> arg]

\* setSelectedId(id) with another id than the current one, and the effects
\* that depend on selectedId: the reset of page.tsx 237-251 and the start of
\* the menu GET of 278-292, which nothing cancels
SelectRestaurant(id) ==
    /\ id # selectedId
    /\ selectedId' = id
    /\ inflight' = inflight \cup {id}
    /\ menuRows' = <<>>
    /\ menuCategories' = <<>>
    /\ lastOp' = Op("select", TRUE, "", FALSE, <<>>)
    /\ UNCHANGED <<formVars, priceVars, pureVars, zoneVars>>

\* page.tsx 278-292: the menu GET started for restaurant id completes (or
\* fails) and applyMenuJson runs inside the try block; an exception reaches
\* the catch and showError.  The callback does not look at selectedId
LoadMenu(id, incoming) ==
    /\ id \in inflight
    /\ inflight' = inflight \ {id}
    /\ UNCHANGED selectedId
    /\ \E fetched \in BOOLEAN : \E r \in {applyMenuJson(incoming)} :
          IF ~fetched
          THEN /\ UNCHANGED <<menuRows, menuCategories>>
               /\ lastOp' = Op("load", FALSE, "Request failed", FALSE, <<>>)
          ELSE IF r.threw
          THEN /\ UNCHANGED <<menuRows, menuCategories>>
               /\ lastOp' = Op("load", FALSE, "TypeError", TRUE, incoming)
          ELSE /\ menuCategories' = r.cats
               /\ menuRows' = r.rows
               /\ lastOp' = Op("load", TRUE, "", FALSE, incoming)
    /\ UNCHANGED <<formVars, priceVars, pureVars, zoneVars>>

\* a variant that empties the editor before it reads the file
ImportMenuFileClearing(file) ==
    /\ \E r \in {importOutcome(file)} :
          /\ menuRows' = r.rows
          /\ menuCategories' = rowsToCategories(r.rows)
          /\ lastOp' = Op("import", r.ok, r.msg, FALSE, file)
    /\ UNCHANGED <<selVars, priceVars, pureVars, zoneVars>>

\* page.tsx 647-729, with a restaurant selected and a file picked
ImportMenuFile(file) ==
    /\ \E r \in {importOutcome(file)} :
          IF r.ok
          THEN /\ menuRows' = r.rows
               /\ menuCategories' = rowsToCategories(r.rows)
               /\ lastOp' = Op("import", TRUE, r.msg, FALSE, file)
          ELSE /\ UNCHANGED <<menuRows, menuCategories>>
               /\ lastOp' = Op("import", FALSE, r.msg, FALSE, file)
    /\ UNCHANGED <<selVars, priceVars, pureVars, zoneVars>>

\* page.tsx 629-633
syncCategoriesFromRows(updated) ==
    \E normalizedRows \in {ensureRowIds(updated)} :
        /\ menuRows' = normalizedRows
        /\ menuCategories' = rowsToCategories(normalizedRows)

\* page.tsx 765-782
addMenuItem(category, item_name, priceText) ==
    /\ \E price \in {StringToNumber(priceText)} :
          IF trim(item_name) = <<>> \/ trim(priceText) = <<>> \/ ~IsFinite(price)
          THEN /\ UNCHANGED <<menuRows, menuCategories>>
               /\ lastOp' = Op("add", FALSE, "invalid form", FALSE, <<>>)
          ELSE /\ syncCategoriesFromRows(
                      Append(menuRows, [id |-> <<>>,
                                        category |-> normalizeCategory(category),
                                        name |-> trim(item_name),
                                        price |-> price,
                                        description |-> Undefined]))
               /\ lastOp' = Op("add", TRUE, "", FALSE, <<>>)
    /\ UNCHANGED <<selVars, priceVars, pureVars, zoneVars>>

\* page.tsx 1593-1599: the category input of row idx
EditCategory(idx, value) ==
    /\ idx \in DOMAIN menuRows
    /\ syncCategoriesFromRows([menuRows EXCEPT ![idx].category = value])
    /\ lastOp' = Op("edit", TRUE, "", FALSE, <<>>)
    /\ UNCHANGED <<selVars, priceVars, pureVars, zoneVars>>

\* page.tsx 1600-1606: the name input of row idx
EditName(idx, value) ==
    /\ idx \in DOMAIN menuRows
    /\ syncCategoriesFromRows([menuRows EXCEPT ![idx].name = value])
    /\ lastOp' = Op("edit", TRUE, "", FALSE, <<>>)
    /\ UNCHANGED <<selVars, priceVars, pureVars, zoneVars>>

\* page.tsx 1607-1617: the number input of row idx; value is the input's
\* text, the empty text when the input holds no valid number
EditPrice(idx, value) ==
    /\ idx \in DOMAIN menuRows
    /\ syncCategoriesFromRows([menuRows EXCEPT ![idx].price = StringToNumber(value)])
    /\ lastOp' = Op("edit", TRUE, "", FALSE, <<>>)
    /\ UNCHANGED <<selVars, priceVars, pureVars, zoneVars>>

RemoveAt(seq, idx) ==
    [i \in 1..(Len(seq) - 1) |-> IF i < idx THEN seq[i] ELSE seq[i + 1]]

\* page.tsx 1618-1624: menuRows.filter((_, i) => i !== idx)
DeleteRow(idx) ==
    /\ idx \in DOMAIN menuRows
    /\ syncCategoriesFromRows(RemoveAt(menuRows, idx))
    /\ lastOp' = Op("delete", TRUE, "", FALSE, <<>>)
    /\ UNCHANGED <<selVars, priceVars, pureVars, zoneVars>>

\* page.tsx 1566-1577: the Clear button
ClearItems ==
    /\ menuRows' = <<>>
    /\ menuCategories' = <<>>
    /\ lastOp' = Op("clear", TRUE, "Items cleared.", FALSE, <<>>)
    /\ UNCHANGED <<selVars, priceVars, pureVars, zoneVars>>

\* unnamed/part_003 15-32: what MenuUpsertSchema accepts of menu_items_json
MenuUpsertAccepts(categories) ==
    \A c \in DOMAIN categories :
        /\ categories[c].name # <<>>
        /\ \A i \in DOMAIN categories[c].items :
              LET it == categories[c].items[i]
              IN  it.id # <<>> /\ it.name # <<>> /\ IsFinite(it.price) /\ it.price.m >= 0

\* page.tsx 784-808, with a restaurant selected; the POST fails when the
\* route rejects the payload and may fail for any other reason.  The
\* operation records the menu_items_json of the payload it sent
saveMenu ==
    /\ \E normalizedRows \in {ensureRowIds(menuRows)} :
       \E categories \in {rowsToCategories(normalizedRows)} :
          IF \E i \in DOMAIN menuRows :
                trim(menuRows[i].name) = <<>> \/ ~IsFinite(menuRows[i].price)
          THEN /\ UNCHANGED <<menuRows, menuCategories>>
               /\ lastOp' = Op("save", FALSE, "Please fix menu items", FALSE, <<>>)
          ELSE IF categories = <<>>
          THEN /\ UNCHANGED <<menuRows, menuCategories>>
               /\ lastOp' = Op("save", FALSE, "No items to save yet.", FALSE, <<>>)
          ELSE \E saved \in BOOLEAN :
                  /\ saved => MenuUpsertAccepts(categories)
                  /\ IF saved
                     THEN /\ menuRows' = normalizedRows
                          /\ menuCategories' = categories
                          /\ lastOp' = Op("save", TRUE, "Menu saved.", FALSE, categories)
                     ELSE /\ UNCHANGED <<menuRows, menuCategories>>
                          /\ lastOp' = Op("save", FALSE, "Request failed", FALSE, categories)
    /\ UNCHANGED <<selVars, priceVars, pureVars, zoneVars>>

(***************************************************************************)
(* Stored values and files the specifications draw from                    *)
(***************************************************************************)
NoItems == [t |-> "absent", elems |-> <<>>]

StoredObject(id, name, price, description, items) ==
    [t |-> "object", id |-> id, name |-> name, price |-> price,
     description |-> description, items |-> items]

StoredNull == [t |-> "null", id |-> Undefined, name |-> Undefined, price |-> UndefNum,
               description |-> Undefined, items |-> NoItems]

StoredScalar == [t |-> "scalar", id |-> Undefined, name |-> Undefined, price |-> UndefNum,
                 description |-> Undefined, items |-> NoItems]

NestedItem(id, name, price, description) ==
    [t |-> "object", id |-> id, name |-> name, price |-> price, description |-> description]

NestedNull == [t |-> "null", id |-> Undefined, name |-> Undefined, price |-> UndefNum,
               description |-> Undefined]

StoredGroup(name, elems) ==
    StoredObject(Undefined, name, UndefNum, Undefined, [t |-> "array", elems |-> elems])

StoredArray(elems) == [t |-> "array", elems |-> elems]

NonArrays == {[t |-> x, elems |-> <<>>] : x \in {"undefined", "null", "scalar", "object"}}

CsvFile(header, data) == [ext |-> "csv", problem |-> "none", header |-> header, data |-> data]

(***************************************************************************)
(* Specification Spec: the menu editor under any sequence of its handlers  *)
(***************************************************************************)
MaxRows == 2

EditorCategories == {<<"B">>, <<"b">>}
EditorNames == {<<"a">>}
AddPriceTexts == {<<"4", "5", "0">>, TextAbc}
EditNames == {<<>>}
EditPriceTexts == {<<"-", "5">>}

EditorStored ==
    {[t |-> "null", elems |-> <<>>],
     StoredArray(<<StoredNull>>),
     StoredArray(<<StoredObject(<<"k">>, <<"a">>, Whole(450), <<"d">>, NoItems)>>),
     StoredArray(<<StoredGroup(<<"B">>, <<NestedItem(Undefined, <<"a", " ">>, Whole(450), Undefined)>>),
                   StoredGroup(<<"C">>, <<NestedItem(Undefined, <<"c">>, Whole(450), Undefined)>>)>>)}

EditorFiles ==
    {CsvFile(<<ItemNameHeader, PriceHeader>>, <<<<<<"a">>, TextAbc>>>>),
     CsvFile(<<ItemNameHeader, PriceHeader, ItemIdHeader>>,
             <<<<<<"a">>, Text450, <<"k">>>>, <<<<"c">>, Text450, <<"k">>>>>>),
     CsvFile(<<PriceHeader>>, <<<<Text450>>>>)}

EditorRestaurants == {"R1", "R2"}

\* page.tsx 500-504 and the first selection: the editor is empty and the
\* menu of the selected restaurant has been asked for
Init ==
    /\ menuRows = <<>>
    /\ menuCategories = <<>>
    /\ lastOp = NoOp
    /\ selectedId = "R1"
    /\ inflight = {"R1"} /\ IdleForm
    /\ IdlePrice /\ IdlePure /\ IdleZones

Next ==
    \/ \E id \in EditorRestaurants : SelectRestaurant(id)
    \/ \E id \in inflight, incoming \in EditorStored : LoadMenu(id, incoming)
    \/ \E file \in EditorFiles : ImportMenuFile(file)
    \/ \E c \in EditorCategories, n \in EditorNames \cup EditNames, p \in AddPriceTexts :
          Len(menuRows) < MaxRows /\ addMenuItem(c, n, p)
    \/ \E idx \in DOMAIN menuRows, c \in EditorCategories : EditCategory(idx, c)
    \/ \E idx \in DOMAIN menuRows, n \in EditorNames \cup EditNames : EditName(idx, n)
    \/ \E idx \in DOMAIN menuRows, p \in EditPriceTexts : EditPrice(idx, p)
    \/ \E idx \in DOMAIN menuRows : DeleteRow(idx)
    \/ ClearItems
    \/ saveMenu

Spec == Init /\ [][Next]_vars

\* C2: every id within a menu catalog is unique: after identity assignment
\* no two rows of the flat row list carry the same id, whatever sequence of
\* load, import, add, edit and delete produced the list.
UniqueIds ==
    \A rows \in {ensureRowIds(menuRows)} :
        \A i, j \in DOMAIN rows : rows[i].id = rows[j].id => i = j

\* the price is finite and not negative
ValidPrice(price) == IsFinite(price) /\ price.m >= 0

\* C16: a price that is negative or not finite never reaches persistence:
\* such a row is dropped during import, or blocks the save action during
\* manual editing, before any request payload is built for the gateway.
InvalidPriceStopsBeforePayload ==
    /\ (lastOp.op = "import" /\ lastOp.ok)
          => \A i \in DOMAIN menuRows : ValidPrice(menuRows[i].price)
    /\ (lastOp.op = "save" /\ lastOp.arg # <<>>)
          => \A c \in DOMAIN lastOp.arg : \A i \in DOMAIN lastOp.arg[c].items :
                ValidPrice(lastOp.arg[c].items[i].price)

\* C20: groups are derived from the flat rows: in every reachable editor
\* state menuCategories equals rowsToCategories(menuRows), whichever operation
\* produced the state.
CategoriesDerivedFromRows == menuCategories = rowsToCategories(menuRows)

(***************************************************************************)
(* Specification SpecSelect: restaurants are selected one after another,   *)
(* their menu loads answer in any order, and the menu is saved             *)
(***************************************************************************)
SelectRestaurants == {"R1", "R2", "R3"}

\* the menu_items_json stored for each restaurant; R3 has none
MenuOf(id) ==
    CASE id = "R1" ->
           StoredArray(<<StoredGroup(<<"B">>, <<NestedItem(<<"k">>, <<"a">>, Whole(450), Undefined)>>)>>)
      [] id = "R2" ->
           StoredArray(<<StoredGroup(<<"C">>, <<NestedItem(<<"m">>, <<"c">>, Whole(7), Undefined)>>)>>)
      [] OTHER -> [t |-> "null", elems |-> <<>>]

InitSelect ==
    /\ menuRows = <<>>
    /\ menuCategories = <<>>
    /\ lastOp = NoOp
    /\ selectedId = ""
    /\ inflight = {} /\ IdleForm
    /\ IdlePrice /\ IdlePure /\ IdleZones

NextSelect ==
    \/ \E id \in SelectRestaurants : SelectRestaurant(id)
    \/ \E id \in inflight : LoadMenu(id, MenuOf(id))
    \/ selectedId # "" /\ saveMenu

SpecSelect == InitSelect /\ [][NextSelect]_vars

\* the flat rows the editor shows for the stored menu of a restaurant
RowsOf(id) == applyMenuJson(MenuOf(id)).rows

\* C25: a menu load response for a previously selected restaurant never
\* overwrites the editor state of the currently selected one: once all loads
\* in flight have completed the flat rows are those of the currently selected
\* restaurant (or none, when its load failed), so saveMenu cannot persist
\* one restaurant's rows under another restaurant's id.
StaleLoadNeverWins ==
    /\ (inflight = {} /\ selectedId # "")
          => menuRows \in {<<>>, RowsOf(selectedId)}
    /\ (lastOp.op = "save" /\ lastOp.ok)
          => lastOp.arg = rowsToCategories(RowsOf(selectedId))

(***************************************************************************)
(* Specification SpecLoad: one menu load into a freshly reset editor       *)
(***************************************************************************)
MaxStored == 2

StoredElems ==
    {StoredNull, StoredScalar}
    \cup {StoredObject(id, <<"a">>, Whole(450), d, NoItems) :
            id \in {Undefined, <<"k">>}, d \in {Undefined, <<"d", " ">>}}
    \cup {StoredObject(Undefined, n, p, Undefined, NoItems) :
            n \in {<<>>, <<" ", "b">>, Undefined}, p \in {Whole(7), NaN, UndefNum}}
    \cup {StoredGroup(<<"B">>, <<NestedItem(Undefined, <<"a">>, Whole(450), Undefined),
                                NestedItem(<<"k">>, <<>>, Whole(450), Undefined)>>),
          StoredGroup(Undefined, <<>>),
          StoredGroup(<<"B">>, <<NestedNull>>),
          StoredObject(Undefined, <<"a">>, Whole(450), Undefined,
                       [t |-> "truthy", elems |-> <<>>])}

StoredMenus == NonArrays \cup {StoredArray(e) : e \in SeqsUpTo(StoredElems, MaxStored)}

InitLoad ==
    /\ menuRows = <<>>
    /\ menuCategories = <<>>
    /\ lastOp = NoOp
    /\ selectedId = "R1"
    /\ inflight = {"R1"} /\ IdleForm
    /\ IdlePrice /\ IdlePure /\ IdleZones

NextLoad == \E incoming \in StoredMenus : lastOp.op = "none" /\ LoadMenu("R1", incoming)

SpecLoad == InitLoad /\ [][NextLoad]_vars

\* the stored value was fetched and handed to applyMenuJson
Loaded == lastOp.op = "load" /\ (lastOp.ok \/ lastOp.threw)

\* a non-empty flat array of items: objects without items member, with a
\* non-empty name and a finite price (id and description optional)
IsFlatItemArray(incoming) ==
    /\ incoming.t = "array"
    /\ incoming.elems # <<>>
    /\ \A i \in DOMAIN incoming.elems :
          LET e == incoming.elems[i]
          IN  /\ e.t = "object"
              /\ e.items.t = "absent"
              /\ IsDefined(e.name) /\ e.name # <<>>
              /\ IsFinite(e.price)

\* C9: loading a stored catalog that is a flat array of items yields exactly
\* one group, named "Uncategorized", that contains those items in stored order
\* (an item without id is identified by its 1-based position).
LegacyShapeLoad ==
    (Loaded /\ IsFlatItemArray(lastOp.arg)) =>
        LET elems == lastOp.arg.elems
        IN  /\ ~lastOp.threw
            /\ Len(menuCategories) = 1
            /\ menuCategories[1].name = Uncategorized
            /\ Len(menuCategories[1].items) = Len(elems)
            /\ \A i \in DOMAIN elems :
                  LET it == menuCategories[1].items[i]
                  IN  /\ it.name = elems[i].name
                      /\ it.price = elems[i].price
                      /\ it.description = elems[i].description
                      /\ (IsDefined(elems[i].id) => it.id = elems[i].id)
                      /\ (~IsDefined(elems[i].id) => it.id = NatToText(i))

LegacyShapeWitness ==
    /\ Loaded /\ IsFlatItemArray(lastOp.arg)
    /\ Len(lastOp.arg.elems) = 2
    /\ IsDefined(lastOp.arg.elems[1].id)
    /\ ~IsDefined(lastOp.arg.elems[2].id)
    /\ Len(menuRows) = 2

\* neither canonical shape: no array, or an array whose elements are null or
\* of the wrong type
NeitherShape(incoming) ==
    \/ incoming.t # "array"
    \/ \A i \in DOMAIN incoming.elems : incoming.elems[i].t \in {"null", "scalar"}

\* C10: the menu loader never raises: for a stored value that is neither
\* canonical shape applyMenuJson ends with an empty catalog (no rows, no
\* groups) instead of throwing.
LoaderNeverRaises ==
    (Loaded /\ NeitherShape(lastOp.arg)) =>
        ~lastOp.threw /\ menuRows = <<>> /\ menuCategories = <<>>

\* C19: no orphaned groups: in every reachable state of the menu editor
\* (after load, import, add, edit, delete, clear or save) the grouped
\* categories contain no group with zero items.
NoOrphanedGroups ==
    \A g \in DOMAIN menuCategories : menuCategories[g].items # <<>>

(***************************************************************************)
(* Specification SpecImport: one file import into the editor               *)
(***************************************************************************)
MaxImportRows == 2

NameCells == {<<>>, <<"a">>, <<" ">>}
PriceCells == {<<>>, TextAbc, Text450, <<"-">>}

PlainHeader == <<ItemNameHeader, PriceHeader>>
PaddedHeader == <<<<" ", "I", "t", "e", "m", "_", "N", "a", "m", "e", " ">>, <<"P", "R", "I", "C", "E">>, <<"I", "t", "e", "m", "-", "I", "d">>, <<"C", "a", "t", "e", "g", "o", "r", "y">>, <<"d", "e", "s", "c", "r", "i", "p", "t", "i", "o", "n">>>>

PlainData == SeqsUpTo({<<n, p>> : n \in NameCells, p \in PriceCells}, MaxImportRows)

PaddedData ==
    {<<<<<<"a">>, PKR1250, id, c, <<"d">>>>, <<<<"c">>, Text450, <<>>, <<"b">>, <<>>>>>> :
        id \in {<<>>, <<"k">>}, c \in {<<>>, <<"B">>, <<" ", "b">>}}

ImportFiles ==
    {[ext |-> x, problem |-> "none", header |-> PlainHeader, data |-> d] :
        x \in {"csv", "xlsx"}, d \in PlainData}
    \cup {[ext |-> x, problem |-> "none", header |-> PaddedHeader, data |-> d] :
            x \in {"csv", "xlsx"}, d \in PaddedData}
    \cup {[ext |-> x, problem |-> "none", header |-> <<h>>, data |-> d] :
            x \in {"csv", "xlsx"},
            h \in {PriceHeader, ItemNameHeader, CategoryHeader},
            d \in {<<>>, <<<<Text450>>>>}}
    \cup {[ext |-> "other", problem |-> "none", header |-> PlainHeader, data |-> <<>>],
          [ext |-> "csv", problem |-> "syntax", header |-> PlainHeader, data |-> <<>>],
          [ext |-> "xlsx", problem |-> "syntax", header |-> <<>>, data |-> <<>>],
          [ext |-> "xlsx", problem |-> "nosheet", header |-> <<>>, data |-> <<>>],
          [ext |-> "xlsx", problem |-> "empty", header |-> <<>>, data |-> <<>>]}

\* the editor before the import: empty, or holding one item
PriorRows == {<<>>, ensureRowIds(<<Row(<<>>, <<"B">>, <<"z">>, Whole(7), Undefined)>>)}

InitImport ==
    /\ menuRows \in PriorRows
    /\ menuCategories = rowsToCategories(menuRows)
    /\ lastOp = NoOp
    /\ selectedId = "R1"
    /\ inflight = {} /\ IdleForm
    /\ IdlePrice /\ IdlePure /\ IdleZones

NextImport == \E file \in ImportFiles : lastOp.op = "none" /\ ImportMenuFile(file)

SpecImport == InitImport /\ [][NextImport]_vars

\* a readable file with both required columns
ValidHeaderFile(file) ==
    /\ file.ext \in {"csv", "xlsx"}
    /\ file.problem = "none"
    /\ MissingHeaders(file.header) = <<>>

\* the data row has an empty name or a price text that holds no number
UnusableRow(header, row) ==
    \/ normalizeText(Cell(header, row, ItemNameHeader)) = <<>>
    \/ ~HasDigit(Cell(header, row, PriceHeader))

\* C5: an import whose file has a valid header row but zero data rows, or in
\* which every data row has an empty name or a non-numeric price, fails with
\* the "no valid rows found" error and never succeeds with any catalog.
EmptyImportRejected ==
    (/\ lastOp.op = "import"
     /\ ValidHeaderFile(lastOp.arg)
     /\ \A i \in DOMAIN lastOp.arg.data :
           UnusableRow(lastOp.arg.header, lastOp.arg.data[i]))
    => (~lastOp.ok /\ lastOp.msg = "No valid rows found in the file.")

\* the spellings of a required header in the files of ImportFiles
Spellings(h) ==
    IF h = ItemNameHeader THEN {ItemNameHeader, PaddedHeader[1]}
    ELSE {PriceHeader, PaddedHeader[2]}

\* no column of the header row is a spelling of h
Absent(header, h) == \A i \in DOMAIN header : header[i] \notin Spellings(h)

\* the import read a header row (the file is of a supported kind and parsed)
HeaderRead == lastOp.op = "import" /\ lastOp.arg.ext # "other" /\ lastOp.arg.problem = "none"

MissingColumnsMessages ==
    {"Missing required columns: item_name, price.",
     "Missing required columns: item_name.",
     "Missing required columns: price."}

\* C11: headers are compared after normalizeHeader (" Item_Name " counts as
\* item_name, "PRICE" as price); when the item-name or the price column is
\* absent, either adapter fails, whatever the data rows hold, with the error
\* that names exactly the missing columns, and the editor keeps its rows; when
\* both are present no missing-columns error is raised.
RequiredHeaderCheck ==
    HeaderRead =>
        \E noName \in {Absent(lastOp.arg.header, ItemNameHeader)} :
        \E noPrice \in {Absent(lastOp.arg.header, PriceHeader)} :
            /\ (noName /\ noPrice) =>
                  (~lastOp.ok /\ lastOp.msg = "Missing required columns: item_name, price.")
            /\ (noName /\ ~noPrice) =>
                  (~lastOp.ok /\ lastOp.msg = "Missing required columns: item_name.")
            /\ (~noName /\ noPrice) =>
                  (~lastOp.ok /\ lastOp.msg = "Missing required columns: price.")
            /\ (noName \/ noPrice) => menuRows \in PriorRows
            /\ (~noName /\ ~noPrice) => lastOp.msg \notin MissingColumnsMessages

RequiredHeaderWitness ==
    /\ HeaderRead
    /\ lastOp.arg.header = <<CategoryHeader>>
    /\ lastOp.arg.data # <<>>
    /\ lastOp.msg = "Missing required columns: item_name, price."
    /\ menuRows # <<>>

StructuralErrors ==
    MissingColumnsMessages
    \cup {"Only .csv and .xlsx files are supported.",
          "Failed to parse the file.",
          "Excel file is missing a worksheet.",
          "Excel file is empty.",
          "No valid rows found in the file."}

\* C12: a fatal import error returns no partial result: when the import
\* fails (unsupported extension, parse error, missing required column,
\* workbook without sheet or rows, zero surviving rows) the flat rows and the
\* grouped categories are those held before the import and an error message
\* is shown.
FailedImportKeepsCatalog ==
    [][(lastOp'.op = "import" /\ ~lastOp'.ok) =>
          /\ menuRows' = menuRows
          /\ menuCategories' = menuCategories
          /\ lastOp'.msg \in StructuralErrors]_vars

FailedImportWitness ==
    /\ lastOp.op = "import" /\ ~lastOp.ok
    /\ lastOp.msg = "No valid rows found in the file."
    /\ lastOp.arg.data # <<>>
    /\ menuRows # <<>> /\ menuCategories # <<>>

(***************************************************************************)
(* SpecZones: the delivery-zones POST against the delivery_zones table.    *)
(* Requests of the callers U1 (owner of R1), U2 (owner of R2) and of a     *)
(* caller that is not signed in run in MaxReq slots, interleaved at their  *)
(* gateway calls; a new request takes the lowest free slot.                *)
(***************************************************************************)
MaxReq == 1
MaxZoneRows == 4

NoNum == UndefNum

\* a zone of a request body: the members the client sends are set, the
\* others are absent
RawZone(city, zone_name, delivery_fee) ==
    [city |-> city, zone_name |-> zone_name, area |-> Undefined,
     delivery_fee |-> delivery_fee, deliveryFee |-> NoNum,
     min_order_amount |-> NoNum, minOrder |-> NoNum, min_order |-> NoNum,
     is_active |-> "absent", active |-> "absent"]

NoZone == RawZone(Undefined, Undefined, NoNum)

ArrayBody(city, zones) ==
    [malformed |-> FALSE, isArray |-> TRUE, zones |-> zones,
     top |-> [NoZone EXCEPT !.city = city]]

ObjectBody(top) == [malformed |-> FALSE, isArray |-> FALSE, zones |-> <<>>, top |-> top]

CityK == <<"K">>
CityL == <<"L">>
CityM == <<"M">>
AreaG == <<"G">>
AreaD == <<"D">>
Fee50 == Whole(50)
Fee80 == Whole(80)

ZoneBodies ==
    { ArrayBody(CityK, <<RawZone(Undefined, AreaG, Fee50)>>),
      ArrayBody(CityK, <<RawZone(CityK, AreaG, Fee80), RawZone(CityL, AreaG, Fee50)>>),
      ArrayBody(CityK, <<RawZone(CityK, AreaD, Fee80), RawZone(CityM, AreaG, Fee50),
                         RawZone(CityL, AreaG, Fee80)>>),
      ArrayBody(Undefined, <<RawZone(<<" ", "K">>, AreaD, Fee50)>>),
      ArrayBody(Undefined, <<RawZone(<<"k">>, AreaG, Fee50)>>),
      ArrayBody(CityK, <<RawZone(CityK, AreaG, Fee50), RawZone(CityK, AreaG, Fee50)>>),
      ObjectBody([NoZone EXCEPT !.city = CityL, !.area = AreaD, !.deliveryFee = Fee50,
                                !.minOrder = EmptyText, !.active = "false"]),
      ArrayBody(CityK, <<>>),
      ArrayBody(CityK, <<RawZone(CityK, AreaG, NoNum)>>),
      ArrayBody(CityK, <<RawZone(CityK, AreaG, Whole(0 - 50))>>),
      ArrayBody(CityK, <<RawZone(CityK, AreaG, NaN)>>),
      ArrayBody(CityK, <<[RawZone(CityK, AreaG, Fee50) EXCEPT !.min_order_amount = Whole(0 - 5)]>>),
      ArrayBody(Undefined, <<RawZone(CityK, Undefined, Fee50)>>),
      ArrayBody(Undefined, <<NoZone>>),
      [ArrayBody(Undefined, <<>>) EXCEPT !.malformed = TRUE] }

Callers == {"U1", "U2", ""}
Restaurants == {"R1", "R2"}

StoredZone(id, city, zone_name, delivery_fee) ==
    [restaurant_id |-> id, city |-> city, zone_name |-> zone_name,
     delivery_fee |-> delivery_fee, min_order_amount |-> Whole(0), is_active |-> TRUE]

SeededZones ==
    SetToBag({ StoredZone("R1", CityK, AreaD, Fee50),
               StoredZone("R1", CityL, AreaG, Fee50),
               StoredZone("R2", CityK, AreaG, Fee50) })

InitZones ==
    /\ zoneStore \in {EmptyBag, SeededZones}
    /\ uniqueIndex \in BOOLEAN
    /\ reqs = [q \in 1..MaxReq |-> IdleRequest]
    /\ IdleBot
    /\ IdlePrice /\ IdlePure /\ IdleMenu

NextZones ==
    \E q \in 1..MaxReq :
        \/ \E caller \in Callers : \E id \in Restaurants : \E body \in ZoneBodies :
              /\ \A p \in 1..(q - 1) : reqs[p].pc # "idle"
              /\ PostBegin(q, caller, id, body)
        \/ PostDelete(q)
        \/ BagCardinality(zoneStore) + Len(reqs[q].rows) <= MaxZoneRows /\ PostInsert(q)
        \/ PostEnd(q)

SpecZones == InitZones /\ [][NextZones]_vars

Copies(B, z) == IF z \in BagToSet(B) THEN B[z] ELSE 0

\* the request in slot q is at its deletes and its batch names the pair of z
\* for the restaurant of z
NamedByBatch(q, z) ==
    /\ reqs[q].pc = "delete"
    /\ z.restaurant_id = reqs[q].id
    /\ \E i \in DOMAIN reqs[q].rows :
          /\ reqs[q].rows[i].city = z.city
          /\ reqs[q].rows[i].zone_name = z.zone_name

\* C1: a stored zone is removed only by a request of its own restaurant whose
\* batch names its (city, zone_name) pair: zones of the restaurant that the
\* batch does not name, in the batch's cities or in others, and the zones of
\* every other restaurant stay.
ZoneIsolation ==
    [][\A z \in BagToSet(zoneStore) :
          Copies(zoneStore', z) < Copies(zoneStore, z)
             => \E q \in DOMAIN reqs : NamedByBatch(q, z)]_vars

\* a request replaced a pair and succeeded while the store holds another zone
\* of that restaurant in the same city, one in another city and the same pair
\* of another restaurant
ZoneIsolationWitness ==
    \E q \in DOMAIN reqs :
        /\ reqs[q].pc = "done" /\ reqs[q].status = 200
        /\ \E i \in DOMAIN reqs[q].rows :
              LET row == reqs[q].rows[i]
              IN  /\ \E z \in BagToSet(zoneStore) :
                        /\ z.restaurant_id = row.restaurant_id /\ z.city = row.city
                        /\ \A j \in DOMAIN reqs[q].rows : reqs[q].rows[j].zone_name # z.zone_name
                  /\ \E z \in BagToSet(zoneStore) :
                        /\ z.restaurant_id = row.restaurant_id
                        /\ \A j \in DOMAIN reqs[q].rows : reqs[q].rows[j].city # z.city
                  /\ \E z \in BagToSet(zoneStore) :
                        /\ z.restaurant_id # row.restaurant_id
                        /\ z.city = row.city /\ z.zone_name = row.zone_name
                  /\ \E z \in BagToSet(zoneStore) :
                        z = row /\ z \notin BagToSet(SeededZones)

\* the rows of one city in the table, with their multiplicities
ZonesOfCity(store, city) ==
    [z \in {x \in BagToSet(store) : x.city = city} |-> store[z]]

\* the request in slot q ended with the error of a gateway write
GatewayFailed(q) ==
    /\ reqs[q].pc = "done" /\ reqs[q].status = 500
    /\ reqs[q].error \in {DeleteFailedText, InsertFailedText}

\* the cities of the batch whose delete had not been issued when the request
\* in slot q ended: those after the city whose delete failed
NotYetRun(q) ==
    IF reqs[q].todo = <<>> THEN {}
    ELSE {Tail(reqs[q].todo)[i].name : i \in DOMAIN Tail(reqs[q].todo)}

\* C13: when a gateway call fails partway through a POST that covers several
\* cities, the request ends with an error response and the stored zones of
\* every city whose delete had not yet run are exactly as the request found
\* them: no step of the request, the failing one included, changes a row of
\* a city that is still behind the head of its loop.
FailureLeavesLaterCities ==
    [][\A q \in DOMAIN reqs :
          (reqs[q].pc = "delete" /\ reqs'[q] # reqs[q])
             => /\ \A city \in NotYetRun(q) :
                      ZonesOfCity(zoneStore', city) = ZonesOfCity(zoneStore, city)
                /\ reqs'[q].pc \in {"delete", "insert", "done"}
                /\ reqs'[q].pc = "done"
                      => /\ reqs'[q].status = 500
                         /\ reqs'[q].error = DeleteFailedText
                         /\ reqs'[q].todo = reqs[q].todo]_vars

\* the delete of the second of three cities failed after the first city's
\* delete removed a zone, and the third city has a stored zone
FailureLeavesLaterCitiesWitness ==
    \E q \in DOMAIN reqs :
        /\ GatewayFailed(q)
        /\ Len(zonesByCity(reqs[q].rows)) = 3 /\ Len(reqs[q].todo) = 2
        /\ zoneStore # reqs[q].before
        /\ \E city \in NotYetRun(q) : ZonesOfCity(zoneStore, city) # EmptyBag

\* the cities of the batch of the request in slot q
BatchCities(q) == {reqs[q].rows[i].city : i \in DOMAIN reqs[q].rows}

Untouched(q, city) == ZonesOfCity(zoneStore, city) = ZonesOfCity(reqs[q].before, city)

Replaced(q, city) ==
    \A i \in DOMAIN reqs[q].rows :
        reqs[q].rows[i].city = city => reqs[q].rows[i] \in BagToSet(zoneStore)

\* C14: each city's delete and insert form an independent unit: when the
\* gateway fails while one city is processed, every other city of the batch
\* ends either fully replaced or fully untouched, never with its batch zones
\* deleted and no replacements inserted.
CityUnitsIndependent ==
    \A q \in DOMAIN reqs :
        (GatewayFailed(q) /\ reqs[q].error = DeleteFailedText)
           => \A city \in BatchCities(q) \ {Head(reqs[q].todo).name} :
                 Untouched(q, city) \/ Replaced(q, city)

\* the text holds part as a run of consecutive characters
Contains(text, part) ==
    \E i \in 1..(Len(text) - Len(part) + 1) : SubSeq(text, i, i + Len(part) - 1) = part

\* the delete of the city at the head of todo failed and the request in
\* slot q answered
DeleteFailed(q) ==
    reqs[q].pc = "done" /\ reqs[q].status = 500 /\ reqs[q].todo # <<>>

\* C15: when a delete fails for some city during the per-city loop, the error
\* returned to the caller identifies which city group failed.
DeleteErrorNamesCity ==
    \A q \in DOMAIN reqs :
        DeleteFailed(q) => Contains(reqs[q].error, Head(reqs[q].todo).name)

(***************************************************************************)
(* Specification SpecBot: create-bot requests, one at a time, from any     *)
(* caller for any restaurant                                               *)
(***************************************************************************)
BotBodies ==
    {[malformed |-> m, restaurant_id |-> r] : m \in {FALSE}, r \in Restaurants \cup {""}}
    \cup {[malformed |-> TRUE, restaurant_id |-> ""]}

InitBot ==
    /\ botSessions \in {[r \in Restaurants |-> NoSession],
                         [r \in Restaurants |-> [status |-> "creating", service |-> TRUE]]}
    /\ botReq = IdleBotRequest
    /\ zoneStore = EmptyBag /\ uniqueIndex = TRUE /\ reqs = <<>>
    /\ IdlePrice /\ IdlePure /\ IdleMenu

NextBot ==
    \/ \E caller \in Callers : \E body \in BotBodies : BotBegin(caller, body)
    \/ BotInitUpsert
    \/ BotRender
    \/ BotRefused
    \/ BotFinalUpsert
    \/ BotCatch
    \/ BotEnd

SpecBot == InitBot /\ [][NextBot]_vars

\* C24: the create-bot endpoint never writes a bot_sessions record for a
\* restaurant the authenticated caller does not own: when the ownership
\* check fails, no upsert on bot_sessions for that restaurant_id happens on
\* any path, the error path included.
BotWritesOnlyOwned ==
    [][\A r \in Restaurants :
          botSessions'[r] # botSessions[r]
             => botReq.restaurantId = r /\ OwnsRestaurant(r, botReq.caller)]_vars

InitRetry ==
    /\ zoneStore \in {EmptyBag, SeededZones}
    /\ uniqueIndex \in BOOLEAN
    /\ reqs = <<IdleRequest, IdleRequest>>
    /\ IdleBot
    /\ IdlePrice /\ IdlePure /\ IdleMenu

\* the body is the batch the first attempt sent
SameBatch(id, body) ==
    /\ ~body.malformed
    /\ reqs[1].rows # <<>>
    /\ id = reqs[1].id
    /\ SchemaAccepts(NormalizedZones(body))
    /\ \E rows \in {ZoneRows(id, NormalizedZones(body))} : rows = reqs[1].rows

NextRetry ==
    \/ \E caller \in Callers : \E id \in Restaurants : \E body \in ZoneBodies :
          PostBegin(1, caller, id, body)
    \/ PostDelete(1)
    \/ PostInsert(1)
    \/ \E id \in Restaurants : \E body \in ZoneBodies :
          /\ reqs[1].pc = "done"
          /\ SameBatch(id, body)
          /\ PostBegin(2, Owner[id], id, body)
    \/ PostDelete(2)
    \/ PostInsert(2)

SpecRetry == InitRetry /\ [][NextRetry]_vars

DistinctPairs(rows) ==
    \A i, j \in DOMAIN rows : ZoneKey(rows[i]) = ZoneKey(rows[j]) => i = j

StoredOnce(row) ==
    /\ Copies(zoneStore, row) = 1
    /\ \A z \in BagToSet(zoneStore) : ZoneKey(z) = ZoneKey(row) => z = row

\* C27: the zone safe-replace is idempotent: for a batch with pairwise
\* distinct (city, zone_name) pairs, the same successful zones POST run twice
\* in a row leaves the store as running it once did, and a successful retry
\* of a batch after a failed attempt ends with every batch zone stored
\* exactly once.
SafeReplaceIdempotent ==
    (/\ reqs[1].pc = "done"
     /\ reqs[2].pc = "done" /\ reqs[2].status = 200
     /\ DistinctPairs(reqs[2].rows))
        => /\ \A i \in DOMAIN reqs[2].rows : StoredOnce(reqs[2].rows[i])
           /\ reqs[1].status = 200 => zoneStore = reqs[2].before

\* a batch of three zones in three cities succeeded twice in a row
SafeReplaceTwiceWitness ==
    /\ reqs[1].pc = "done" /\ reqs[1].status = 200
    /\ reqs[2].pc = "done" /\ reqs[2].status = 200
    /\ Len(reqs[2].rows) = 3 /\ DistinctPairs(reqs[2].rows)
    /\ reqs[2].rows = reqs[1].rows

\* the first attempt failed at its insert, after its deletes, and the retry
\* of the same batch succeeded
SafeReplaceRetryWitness ==
    /\ reqs[1].pc = "done" /\ reqs[1].status = 500 /\ reqs[1].error = InsertFailedText
    /\ reqs[2].pc = "done" /\ reqs[2].status = 200
    /\ DistinctPairs(reqs[2].rows) /\ reqs[2].rows = reqs[1].rows

(***************************************************************************)
(* Requests the handler refuses                                            *)
(***************************************************************************)
\* a normalized zone the batch may not hold
InvalidZone(zone) ==
    \/ zone.city = <<>>
    \/ zone.zone_name = <<>>
    \/ ~IsFinite(zone.delivery_fee)
    \/ zone.delivery_fee.m < 0
    \/ zone.min_order_amount.m < 0

\* the caller is not signed in, does not own the restaurant, or the batch is
\* empty or holds an invalid zone
RejectedInput(caller, id, body) ==
    \/ caller = ""
    \/ ~OwnsRestaurant(id, caller)
    \/ /\ ~body.malformed
       /\ \/ RawZones(body) = <<>>
          \/ \E i \in DOMAIN RawZones(body) : InvalidZone(NormalizedZones(body)[i])

RejectedInputs ==
    {in \in [caller : Callers, id : Restaurants, body : ZoneBodies] :
        RejectedInput(in.caller, in.id, in.body)}

\* the request of slot q has answered with a refusal and has no write to issue
AnsweredWithoutWrite(q) ==
    /\ reqs[q].pc = "done"
    /\ reqs[q].status \in {400, 401, 404, 500}
    /\ reqs[q].rows = <<>> /\ reqs[q].todo = <<>>

\* C28: a zones POST that is rejected before the protocol starts (caller not
\* authenticated, restaurant not owned by the caller, or a batch that is
\* empty or holds a zone with empty city, empty zone_name, a missing,
\* non-finite or negative delivery_fee or a negative min_order_amount)
\* performs no delete and no insert: the step that takes such a request
\* answers it with a refusal, schedules no write and leaves the store
\* unchanged.
RejectedWritesNothing ==
    [][\A q \in DOMAIN reqs :
          (/\ reqs[q].pc = "idle" /\ reqs'[q].pc # "idle"
           /\ ~(AnsweredWithoutWrite(q)' /\ zoneStore' = zoneStore))
              => \A in \in RejectedInputs : ~PostBegin(q, in.caller, in.id, in.body)]_vars

\* a request with an invalid batch was answered 400 while the table holds
\* zones of its restaurant
RejectedWritesNothingWitness ==
    \E q \in DOMAIN reqs :
        /\ reqs[q].pc = "done" /\ reqs[q].status = 400
        /\ reqs[q].error = InvalidPayloadText
        /\ zoneStore = SeededZones

(***************************************************************************)
(* The zones tab of the dashboard: page.tsx 395-497 and 1253-1420.  The    *)
(* pending list is edited by the city select, the areas multi-select, the  *)
(* custom-area input, the inputs and the remove button of each row, and    *)
(* sent by addZone, whose POST answers in a later step.                    *)
(***************************************************************************)
\* page.tsx 411-413
normalizeAreaName(value) == trim(value)

\* the key the handlers compare area names by
AreaKey(name) == toLowerCase(normalizeAreaName(name))

\* page.tsx 415-418
isPredefinedArea(name, city) ==
    \E i \in DOMAIN CITY_AREAS[city] : toLowerCase(CITY_AREAS[city][i]) = AreaKey(name)

RECURSIVE UniqueAreasFrom(_, _, _)
\* page.tsx 420-430: the loop with its seen set and its output
UniqueAreasFrom(names, seen, out) ==
    IF names = <<>> THEN out
    ELSE IF AreaKey(Head(names)) = <<>> \/ AreaKey(Head(names)) \in seen
         THEN UniqueAreasFrom(Tail(names), seen, out)
         ELSE UniqueAreasFrom(Tail(names), seen \cup {AreaKey(Head(names))},
                              Append(out, Head(names)))

uniqueAreas(names) == UniqueAreasFrom(names, {}, <<>>)

\* a new row of the pending list (page.tsx 491-494, 1298-1304)
NewPendingZone(city, name) ==
    [city |-> city, zone_name |-> name, delivery_fee |-> <<>>,
     min_order_amount |-> <<>>, is_active |-> TRUE]

ZoneNames(zones) == [i \in DOMAIN zones |-> zones[i].zone_name]

RECURSIVE KeysOf(_)
KeysOf(names) == IF names = <<>> THEN {} ELSE {AreaKey(Head(names))} \cup KeysOf(Tail(names))

\* page.tsx 1283-1285, 1288-1290: the names of the pending rows that are not
\* areas of the city's list
CustomNames(zones, city) ==
    ZoneNames(SelectSeq(zones, LAMBDA z : ~isPredefinedArea(z.zone_name, city)))

\* page.tsx 1291-1296
KeptZones(prev, keepKeys) == SelectSeq(prev, LAMBDA z : AreaKey(z.zone_name) \in keepKeys)

\* a variant of the additions without the filter on the rows already kept
AdditionsAll(selected, existing, city) ==
    [i \in DOMAIN selected |-> NewPendingZone(city, selected[i])]

\* page.tsx 1297-1306
Additions(selected, existing, city) ==
    [i \in DOMAIN SelectSeq(selected, LAMBDA name : AreaKey(name) \notin existing) |->
        NewPendingZone(city, SelectSeq(selected, LAMBDA name : AreaKey(name) \notin existing)[i])]

\* page.tsx 1287-1307: the updater of setPendingZones in the areas select
PendingAfterSelect(prev, selected, city) ==
    KeptZones(prev, KeysOf(selected \o CustomNames(prev, city)))
       \o Additions(selected,
                    KeysOf(ZoneNames(KeptZones(prev, KeysOf(selected \o CustomNames(prev, city))))),
                    city)

\* page.tsx 1260-1267: onChange of the city select
SelectCity(city) ==
    /\ zoneForm' = [city |-> city, selectedAreas |-> <<>>, errors |-> ""]
    /\ pendingZones' = <<>>
    /\ customAreaText' = <<>>
    /\ lastOp' = Op("zones", TRUE, "", FALSE, <<>>)
    /\ UNCHANGED <<zoneSaves, menuRows, menuCategories, selectedId, inflight,
                   priceVars, pureVars, zoneVars>>

\* page.tsx 1280-1309: onChange of the areas select; selected are the values
\* of the selected options, in the order of the options
SelectAreas(selected) ==
    /\ zoneForm' = [zoneForm EXCEPT
                       !.selectedAreas =
                           uniqueAreas(selected \o CustomNames(pendingZones, zoneForm.city)),
                       !.errors = ""]
    /\ pendingZones' = PendingAfterSelect(pendingZones, selected, zoneForm.city)
    /\ lastOp' = Op("zones", TRUE, "", FALSE, <<>>)
    /\ UNCHANGED <<customAreaText, zoneSaves, menuRows, menuCategories, selectedId, inflight,
                   priceVars, pureVars, zoneVars>>

\* page.tsx 1321-1324: onChange of the custom-area input (maxLength 40)
TypeCustomArea(text) ==
    /\ Len(text) <= 40
    /\ customAreaText' = text
    /\ lastOp' = Op("zones", TRUE, "", FALSE, <<>>)
    /\ UNCHANGED <<zoneForm, pendingZones, zoneSaves, menuRows, menuCategories,
                   selectedId, inflight, priceVars, pureVars, zoneVars>>

\* page.tsx 484: existsInPending
ExistsInPending(key) ==
    \E i \in DOMAIN pendingZones : AreaKey(pendingZones[i].zone_name) = key

\* page.tsx 472-497
addCustomArea ==
    /\ IF normalizeAreaName(customAreaText) = <<>>
       THEN /\ lastOp' = Op("custom", FALSE, "Enter a valid area name.", FALSE, <<>>)
            /\ UNCHANGED <<zoneForm, pendingZones, customAreaText>>
       ELSE IF Len(normalizeAreaName(customAreaText)) > 40
       THEN /\ lastOp' = Op("custom", FALSE, "Area name must be 40 characters or less.",
                            FALSE, <<>>)
            /\ UNCHANGED <<zoneForm, pendingZones, customAreaText>>
       ELSE IF \/ \E i \in DOMAIN zoneForm.selectedAreas :
                    AreaKey(zoneForm.selectedAreas[i]) = AreaKey(customAreaText)
               \/ ExistsInPending(AreaKey(customAreaText))
               \/ \E i \in DOMAIN CITY_AREAS[zoneForm.city] :
                    toLowerCase(CITY_AREAS[zoneForm.city][i]) = AreaKey(customAreaText)
       THEN /\ lastOp' = Op("custom", FALSE, "Area already exists.", FALSE, <<>>)
            /\ UNCHANGED <<zoneForm, pendingZones, customAreaText>>
       ELSE /\ zoneForm' = [zoneForm EXCEPT !.selectedAreas =
                               uniqueAreas(Append(@, normalizeAreaName(customAreaText)))]
            /\ pendingZones' =
                  Append(pendingZones,
                         NewPendingZone(zoneForm.city, normalizeAreaName(customAreaText)))
            /\ customAreaText' = <<>>
            /\ lastOp' = Op("custom", TRUE, "", FALSE, <<>>)
    /\ UNCHANGED <<zoneSaves, menuRows, menuCategories, selectedId, inflight,
                   priceVars, pureVars, zoneVars>>

\* page.tsx 1359-1394: the inputs of a row
EditPendingZone(idx, field, value) ==
    /\ idx \in DOMAIN pendingZones
    /\ pendingZones' = [pendingZones EXCEPT ![idx] =
                           CASE field = "delivery_fee" -> [@ EXCEPT !.delivery_fee = value]
                             [] field = "min_order_amount" ->
                                   [@ EXCEPT !.min_order_amount = value]
                             [] OTHER -> [@ EXCEPT !.is_active = ~@]]
    /\ lastOp' = Op("zones", TRUE, "", FALSE, <<>>)
    /\ UNCHANGED <<zoneForm, customAreaText, zoneSaves, menuRows, menuCategories,
                   selectedId, inflight, priceVars, pureVars, zoneVars>>

\* page.tsx 1396-1412: the remove button of a row
RemovePendingZone(idx) ==
    /\ idx \in DOMAIN pendingZones
    /\ pendingZones' = [i \in 1..(Len(pendingZones) - 1) |->
                           IF i < idx THEN pendingZones[i] ELSE pendingZones[i + 1]]
    /\ zoneForm' = [zoneForm EXCEPT !.selectedAreas =
                       SelectSeq(@, LAMBDA name : name # pendingZones[idx].zone_name)]
    /\ lastOp' = Op("zones", TRUE, "", FALSE, <<>>)
    /\ UNCHANGED <<customAreaText, zoneSaves, menuRows, menuCategories,
                   selectedId, inflight, priceVars, pureVars, zoneVars>>

\* page.tsx 442-455: addZone up to the POST
addZone ==
    /\ selectedId # ""
    /\ IF pendingZones = <<>>
       THEN /\ zoneForm' = [zoneForm EXCEPT !.errors = "Add at least one area before saving."]
            /\ UNCHANGED zoneSaves
       ELSE /\ zoneForm' = [zoneForm EXCEPT !.errors = ""]
            /\ zoneSaves' = zoneSaves + 1
    /\ lastOp' = Op("addZone", pendingZones # <<>>, "", FALSE, <<>>)
    /\ UNCHANGED <<pendingZones, customAreaText, menuRows, menuCategories,
                   selectedId, inflight, priceVars, pureVars, zoneVars>>

\* a variant of the failure branch that empties the pending list
ZoneSaveFailedClearing ==
    /\ pendingZones' = <<>>
    /\ lastOp' = Op("zonesSaved", FALSE, "Request failed", FALSE, <<>>)
    /\ UNCHANGED <<zoneForm, customAreaText>>

\* page.tsx 467-469: the POST of addZone failed
ZoneSaveFailed ==
    /\ lastOp' = Op("zonesSaved", FALSE, "Request failed", FALSE, <<>>)
    /\ UNCHANGED <<zoneForm, pendingZones, customAreaText>>

\* page.tsx 462-466: the POST of addZone succeeded
ZoneSaveSucceeded ==
    /\ pendingZones' = <<>>
    /\ zoneForm' = [zoneForm EXCEPT !.selectedAreas = <<>>]
    /\ customAreaText' = <<>>
    /\ lastOp' = Op("zonesSaved", TRUE, "Zones saved.", FALSE, <<>>)

\* page.tsx 456-469: the POST of one call of addZone answers
ZoneSaveAnswered ==
    /\ zoneSaves > 0
    /\ zoneSaves' = zoneSaves - 1
    /\ \E ok \in BOOLEAN : IF ok THEN ZoneSaveSucceeded ELSE ZoneSaveFailed
    /\ UNCHANGED <<menuRows, menuCategories, selectedId, inflight,
                   priceVars, pureVars, zoneVars>>

(***************************************************************************)
(* SpecForm: the zones tab of one selected restaurant                      *)
(***************************************************************************)
MaxPending == 2
MaxZoneSaves == 1

Saddar == <<"S", "a", "d", "d", "a", "r">>

CustomTexts ==
    { <<" ">>,
      <<" ">> \o Saddar \o <<" ">>,
      toLowerCase(Saddar),
      toLowerCase(CITY_AREAS["Karachi"][3]) \o <<" ">>,
      CITY_AREAS["Islamabad"][1] }

\* the values of the selected options: a choice of the options, in their order
Selections(city) ==
    {SelectSeq(CITY_AREAS[city], LAMBDA a : a \in chosen) :
        chosen \in SUBSET {CITY_AREAS[city][i] : i \in DOMAIN CITY_AREAS[city]}}

InitForm ==
    /\ menuRows = <<>> /\ menuCategories = <<>> /\ lastOp = NoOp
    /\ selectedId = "R1" /\ inflight = {}
    /\ IdleForm
    /\ IdlePrice /\ IdlePure /\ IdleZones

NextForm ==
    \/ \E i \in DOMAIN CITY_OPTIONS : SelectCity(CITY_OPTIONS[i])
    \/ \E selected \in Selections(zoneForm.city) :
          /\ Len(PendingAfterSelect(pendingZones, selected, zoneForm.city)) <= MaxPending
          /\ SelectAreas(selected)
    \/ \E text \in CustomTexts : TypeCustomArea(text)
    \/ /\ Len(pendingZones) < MaxPending \/ ExistsInPending(AreaKey(customAreaText))
       /\ addCustomArea
    \/ \E idx \in DOMAIN pendingZones :
          \E field \in {"delivery_fee"}, value \in {<<"5">>} :
             EditPendingZone(idx, field, value)
    \/ \E idx \in DOMAIN pendingZones : RemovePendingZone(idx)
    \/ zoneSaves < MaxZoneSaves /\ addZone
    \/ ZoneSaveAnswered

SpecForm == InitForm /\ [][NextForm]_vars

\* C29: after any sequence of area multi-select changes, custom-area
\* additions, row removals, city changes and saves, the pending zone list
\* never holds two entries whose zone names are equal after trimming and
\* lowercasing.
PendingNamesDistinct ==
    \A i, j \in DOMAIN pendingZones :
        AreaKey(pendingZones[i].zone_name) = AreaKey(pendingZones[j].zone_name) => i = j

\* the list holds a custom area and an area of the city's list, and adding a
\* custom area spelled like one of them was refused
PendingNamesDistinctWitness ==
    /\ Len(pendingZones) >= 2
    /\ \E i \in DOMAIN pendingZones : ~isPredefinedArea(pendingZones[i].zone_name, zoneForm.city)
    /\ \E i \in DOMAIN pendingZones : isPredefinedArea(pendingZones[i].zone_name, zoneForm.city)
    /\ lastOp.op = "custom" /\ ~lastOp.ok /\ lastOp.msg = "Area already exists."
    /\ ExistsInPending(AreaKey(customAreaText))

(***************************************************************************)
(* SpecSave: the two saves of the dashboard.  The menu of the selected     *)
(* restaurant loads and is edited and saved with saveMenu; areas are       *)
(* chosen, edited and saved with addZone.  Each gateway call may fail.     *)
(***************************************************************************)
InitSave ==
    /\ menuRows = <<>> /\ menuCategories = <<>> /\ lastOp = NoOp
    /\ selectedId = "R1" /\ inflight = {"R1"}
    /\ IdleForm
    /\ IdlePrice /\ IdlePure /\ IdleZones

NextSave ==
    \/ LoadMenu("R1", MenuOf("R1"))
    \/ \E idx \in DOMAIN menuRows, p \in EditPriceTexts : EditPrice(idx, p)
    \/ saveMenu
    \/ \E selected \in Selections(zoneForm.city) :
          /\ Len(PendingAfterSelect(pendingZones, selected, zoneForm.city)) <= MaxPending
          /\ SelectAreas(selected)
    \/ \E idx \in DOMAIN pendingZones :
          \E field \in {"delivery_fee", "is_active"}, value \in {<<"5">>} :
             EditPendingZone(idx, field, value)
    \/ zoneSaves < MaxZoneSaves /\ addZone
    \/ ZoneSaveAnswered

SpecSave == InitSave /\ [][NextSave]_vars

\* C30: a failed save does not modify the client's edit state: in the step
\* in which saveMenu or the POST of addZone fails, the flat menu rows, the
\* grouped categories and the pending zone list (with the zone form) stay
\* exactly as they were, so the same batch can be sent again; an answer to
\* addZone empties the pending zone list only when the save succeeded.
FailedSaveKeepsEdits ==
    [][/\ (lastOp' # lastOp /\ lastOp'.op = "save" /\ ~lastOp'.ok)
           => /\ menuRows' = menuRows /\ menuCategories' = menuCategories
              /\ pendingZones' = pendingZones /\ zoneForm' = zoneForm
       /\ (zoneSaves' < zoneSaves /\ ~lastOp'.ok)
           => /\ menuRows' = menuRows /\ menuCategories' = menuCategories
              /\ pendingZones' = pendingZones /\ zoneForm' = zoneForm
       /\ (zoneSaves' < zoneSaves /\ pendingZones' # pendingZones)
           => lastOp'.ok /\ lastOp'.msg = "Zones saved."]_vars

\* the POST of addZone failed while the pending list holds an edited zone
\* and the editor holds menu rows
FailedSaveKeepsEditsWitness ==
    /\ lastOp.op = "zonesSaved" /\ ~lastOp.ok
    /\ zoneSaves = 0
    /\ \E i \in DOMAIN pendingZones : pendingZones[i].delivery_fee # <<>>
    /\ menuRows # <<>>

\* the gateway call of saveMenu failed on rows that differ from the loaded
\* ones while areas are pending
FailedMenuSaveWitness ==
    /\ lastOp.op = "save" /\ ~lastOp.ok /\ lastOp.msg = "Request failed"
    /\ menuRows # <<>> /\ menuRows # RowsOf("R1")
    /\ pendingZones # <<>>

====
